---- MODULE Spec2Model ----
(***************************************************************************)
(* A model of the scheduled ingestion pipeline of finsights-gemini:        *)
(*   - CacheManager            (app/services/cache.py)                     *)
(*   - AsyncRequestProcessor   (app/services/async_processor.py)           *)
(*   - AsyncGeminiService      (app/services/gemini_async.py)              *)
(*   - SchedulerService        (app/services/scheduler.py)                 *)
(* Python dicts held by the cache are objects with identity: a cache entry *)
(* is [ref, d], and two entries with the same ref are the same dict.       *)
(***************************************************************************)
EXTENDS Integers, Sequences, FiniteSets, TLC

VARIABLES
    cache,      \* CacheManager._cache
    db_news,    \* committed rows of table "news"
    db_jobs,    \* committed rows of table "schedule_jobs", by job name
    api_logs,   \* committed rows of table "api_logs", oldest first
    next_id,    \* the next autoincrement id of table "news"
    triggers,   \* job names with a trigger registered in the APScheduler
    ctx,        \* the threads: APScheduler pool workers and the web event loop
    runs,       \* executions started so far
    clock,      \* datetime.now(TIMEZONE), in minutes
    ticks,      \* times the clock has advanced
    paused,     \* the APScheduler is in its paused state
    trig,       \* by job name, the trigger registered and its next run time
    last_fire,  \* by job name, the run time of the last scheduled firing
    running,    \* the APScheduler has been started
    lock,       \* CacheManager._lock: "free" or "held"
    loader      \* the store query a cache load is waiting for, or "idle"

vars == <<cache, db_news, db_jobs, api_logs, next_id, triggers, ctx, runs, clock,
          ticks, paused, trig, last_fire, running, lock, loader>>

pipeVars == <<db_jobs, api_logs, next_id, triggers, ctx, runs>>

schedVars == <<paused, trig, last_fire, running>>

lockVars == <<lock, loader>>

----------------------------------------------------------------------------
(* Bounds of the model *)

MaxId == 2          \* record ids 1..MaxId in SpecCache
MaxCacheLen == 2    \* add_news is not called on a flat list this long
MaxTicks == 3       \* the clock advances at most MaxTicks times
NumWorkers == 1     \* APScheduler pool threads modelled
MaxRuns == 2        \* executions started in one behaviour
TickMinutes == 15   \* minutes the clock advances by in one step
SampleInterval == 60 \* interval_minutes posted to update_job_timing
SampleSentiment == 2 \* sentiment_score of a structured provider answer

(* Program constants *)

StockCacheTtl == 30     \* CacheManager._stock_cache_ttl, minutes
MinTitleLen == 10       \* _process_news_job: len(title) < 10
MaxTitleLen == 500      \* _process_news_job: title[:500]
MinutesPerDay == 1440   \* _generate_title formats the date of now
NoTime == -1            \* ScheduleJob.last_run is NULL
HoursPerDay == 24       \* CronTrigger: hour in 0..23
MinutesPerHour == 60    \* CronTrigger: minute in 0..59
DefaultInterval == 120  \* DEFAULT_SCHEDULE_CONFIG["sector_auto"]["interval_minutes"]
StartTime == 300        \* the time of day the application is started at: 05:00

----------------------------------------------------------------------------
(* Python values *)

None == "None"
NoDict == [none |-> TRUE]       \* None where a dict is expected
NoErr == "ok"
AttributeError == "AttributeError"
TypeError == "TypeError"

Min(a, b) == IF a <= b THEN a ELSE b

----------------------------------------------------------------------------
(* News.to_dict: the cache's projection of a row.  Timestamps are integers *)
(* and isoformat() keeps their order.                                      *)

to_dict(row) ==
    [id |-> row.id, title |-> row.title, category |-> row.category,
     subcategory |-> row.subcategory, symbols |-> row.symbols,
     sentiment_score |-> row.sentiment_score,
     fetched_at |-> row.fetched_at, is_published |-> row.is_published,
     is_featured |-> row.is_featured]

----------------------------------------------------------------------------
(* CacheManager.  _cache["news"][category] is a Python dict: an ordered    *)
(* association list of [k, v].  A value is a list bucket                   *)
(* [kind |-> "list", items] or, under "stock", what set_stock_news stores: *)
(* [kind |-> "ttl", news, expires_at].                                     *)

CacheCategories == <<"market", "sector", "macro", "regulation", "stock">>

CategorySet == {CacheCategories[i] : i \in 1..Len(CacheCategories)}

EmptyCache ==
    [news |-> [c \in CategorySet |-> <<>>], all_news |-> <<>>, featured |-> <<>>]

DictIdx(dict, k) ==
    IF \E i \in 1..Len(dict) : dict[i].k = k
    THEN CHOOSE i \in 1..Len(dict) : dict[i].k = k
    ELSE 0

DictHas(dict, k) == DictIdx(dict, k) # 0

DictGet(dict, k) == dict[DictIdx(dict, k)].v

DictSet(dict, k, v) ==
    IF DictHas(dict, k)
    THEN [dict EXCEPT ![DictIdx(dict, k)].v = v]
    ELSE Append(dict, [k |-> k, v |-> v])

ListBucket(items) == [kind |-> "list", items |-> items]

TtlBucket(news, expires) == [kind |-> "ttl", news |-> news, expires_at |-> expires]

BucketEntries(v) == IF v.kind = "list" THEN v.items ELSE v.news

SeqRange(s) == {s[i] : i \in 1..Len(s)}

(* Every dict object the cache holds *)
AllEntries(c) ==
    SeqRange(c.all_news) \cup SeqRange(c.featured) \cup
    UNION {UNION {SeqRange(BucketEntries(c.news[cat][i].v)) : i \in 1..Len(c.news[cat])} :
              cat \in CategorySet}

FreshRef(c) ==
    LET used == {e.ref : e \in AllEntries(c)}
    IN  CHOOSE n \in 1..(Cardinality(used) + 1) :
            n \notin used /\ \A m \in 1..(n - 1) : m \in used

FirstIdx(list, id) ==
    IF \E i \in 1..Len(list) : list[i].d.id = id
    THEN CHOOSE i \in 1..Len(list) :
            list[i].d.id = id /\ \A j \in 1..(i - 1) : list[j].d.id # id
    ELSE 0

SelectSeqNotId(list, id) ==
    LET keep(e) == e.d.id # id IN SelectSeq(list, keep)

(* dict.update on the object ref: every list holding that object sees it *)
Merge(d, updates) ==
    [f \in DOMAIN d \cup DOMAIN updates |->
        IF f \in DOMAIN updates THEN updates[f] ELSE d[f]]

MutateList(list, ref, updates) ==
    [i \in 1..Len(list) |->
        IF list[i].ref = ref THEN [list[i] EXCEPT !.d = Merge(@, updates)] ELSE list[i]]

MutateBucket(v, ref, updates) ==
    IF v.kind = "list"
    THEN [v EXCEPT !.items = MutateList(@, ref, updates)]
    ELSE [v EXCEPT !.news = MutateList(@, ref, updates)]

MutateObj(c, ref, updates) ==
    [news |-> [cat \in CategorySet |->
                  [i \in 1..Len(c.news[cat]) |->
                      [c.news[cat][i] EXCEPT !.v = MutateBucket(@, ref, updates)]]],
     all_news |-> MutateList(c.all_news, ref, updates),
     featured |-> MutateList(c.featured, ref, updates)]

(* The (category, position) slots in the order the nested for-loops of     *)
(* update_news and remove_news visit them.                                 *)
RECURSIVE SlotsFrom(_, _)
SlotsFrom(c, ci) ==
    IF ci > Len(CacheCategories) THEN <<>>
    ELSE [i \in 1..Len(c.news[CacheCategories[ci]]) |-> <<CacheCategories[ci], i>>]
         \o SlotsFrom(c, ci + 1)

Slots(c) == SlotsFrom(c, 1)

(* CacheManager.get_news_by_category with a subcategory: the first limit   *)
(* dicts of the bucket; slicing the dict set_stock_news stores raises.     *)
get_news_by_category(c, category, subcategory, limit) ==
    IF category \notin CategorySet \/ ~DictHas(c.news[category], subcategory)
    THEN [news |-> <<>>, err |-> NoErr]
    ELSE LET v == DictGet(c.news[category], subcategory)
         IN  IF v.kind # "list" THEN [news |-> <<>>, err |-> TypeError]
             ELSE [news |-> [i \in 1..Min(limit, Len(v.items)) |-> v.items[i].d],
                   err |-> NoErr]

(* list.sort(key=fetched_at, reverse=True): a stable sort, dicts of equal  *)
(* fetch time keep the order they had.                                     *)
RECURSIVE InsertNewestFirst(_, _)
InsertNewestFirst(sorted, e) ==
    IF sorted = <<>> THEN <<e>>
    ELSE IF Head(sorted).d.fetched_at >= e.d.fetched_at
    THEN <<Head(sorted)>> \o InsertNewestFirst(Tail(sorted), e)
    ELSE <<e>> \o sorted

RECURSIVE SortNewestFirst(_)
SortNewestFirst(list) ==
    IF list = <<>> THEN <<>>
    ELSE InsertNewestFirst(SortNewestFirst(SubSeq(list, 1, Len(list) - 1)),
                           list[Len(list)])

(* CacheManager.get_news_by_category without a subcategory: the values of  *)
(* the category joined in key order and sorted newest first.  Joining the  *)
(* dict set_stock_news stores puts its keys, strings, into the list, and   *)
(* the sort key's x.get raises.                                            *)
RECURSIVE JoinBuckets(_, _)
JoinBuckets(dict, i) ==
    IF i > Len(dict) THEN <<>> ELSE dict[i].v.items \o JoinBuckets(dict, i + 1)

get_news_by_category_all(c, category, limit) ==
    IF category \notin CategorySet THEN [news |-> <<>>, err |-> NoErr]
    ELSE IF \E i \in 1..Len(c.news[category]) : c.news[category][i].v.kind # "list"
    THEN [news |-> <<>>, err |-> AttributeError]
    ELSE LET news_list == SortNewestFirst(JoinBuckets(c.news[category], 1))
         IN  [news |-> [i \in 1..Min(limit, Len(news_list)) |-> news_list[i].d],
              err |-> NoErr]

(* CacheManager.get_latest_news and get_featured_news: the head of a list *)
get_latest_news(c, limit) ==
    [i \in 1..Min(limit, Len(c.all_news)) |-> c.all_news[i].d]

get_featured_news(c, limit) ==
    [i \in 1..Min(limit, Len(c.featured)) |-> c.featured[i].d]

(* CacheManager.search_news over the flat list.  A title is a stem and a   *)
(* length; the query is a word, found in the title if it is the stem's     *)
(* second part.                                                            *)
search_news(c, query, limit) ==
    LET results == SelectSeq(c.all_news, LAMBDA e : e.d.title.stem[2] = query)
    IN  [i \in 1..Min(limit, Len(results)) |-> results[i].d]

(* CacheManager.add_news.  nd is the dict passed, ref its identity.  The   *)
(* bucket insert comes first: on a "ttl" value it raises and nothing has   *)
(* changed yet.                                                            *)
add_news(c, nd, ref) ==
    LET e == [ref |-> ref, d |-> nd]
        cat == nd.category
        sub == nd.subcategory
        inCat == cat \in CategorySet
        dict0 == IF inCat THEN c.news[cat] ELSE <<>>
        dict1 == IF inCat /\ ~DictHas(dict0, sub)
                 THEN DictSet(dict0, sub, ListBucket(<<>>)) ELSE dict0
        raises == inCat /\ DictGet(dict1, sub).kind # "list"
        c1 == IF inCat
              THEN [c EXCEPT !.news[cat] =
                       DictSet(dict1, sub, ListBucket(<<e>> \o DictGet(dict1, sub).items))]
              ELSE c
        c2 == [c1 EXCEPT !.all_news = <<e>> \o @]
        c3 == IF nd.is_featured = TRUE THEN [c2 EXCEPT !.featured = <<e>> \o @] ELSE c2
    IN  IF raises THEN [cache |-> c, err |-> AttributeError]
        ELSE [cache |-> c3, err |-> NoErr]

(* CacheManager.get_news_by_id: the first flat-list dict with that id *)
get_news_by_id(c, news_id) ==
    IF FirstIdx(c.all_news, news_id) = 0 THEN NoDict
    ELSE c.all_news[FirstIdx(c.all_news, news_id)].d

(* CacheManager.update_news: the first flat-list match, then the first     *)
(* bucket match in loop order; enumerating a "ttl" value yields its keys,  *)
(* strings, and .get on a string raises.                                   *)
RECURSIVE UpdateInSlots(_, _, _, _)
UpdateInSlots(c, slots, news_id, updates) ==
    IF slots = <<>> THEN [cache |-> c, err |-> NoErr]
    ELSE LET v == c.news[Head(slots)[1]][Head(slots)[2]].v
         IN  IF v.kind # "list" THEN [cache |-> c, err |-> AttributeError]
             ELSE IF FirstIdx(v.items, news_id) # 0
             THEN [cache |-> MutateObj(c, v.items[FirstIdx(v.items, news_id)].ref, updates),
                   err |-> NoErr]
             ELSE UpdateInSlots(c, Tail(slots), news_id, updates)

update_news(c, news_id, updates) ==
    LET i == FirstIdx(c.all_news, news_id)
        c1 == IF i # 0 THEN MutateObj(c, c.all_news[i].ref, updates) ELSE c
    IN  UpdateInSlots(c1, Slots(c1), news_id, updates)

(* CacheManager.remove_news: flat list, featured, then every bucket in     *)
(* loop order; the comprehension over a "ttl" value iterates its keys and  *)
(* raises, leaving the later buckets as they were.                         *)
RECURSIVE RemoveInSlots(_, _, _)
RemoveInSlots(c, slots, news_id) ==
    IF slots = <<>> THEN [cache |-> c, err |-> NoErr]
    ELSE LET cat == Head(slots)[1]
             i == Head(slots)[2]
             v == c.news[cat][i].v
         IN  IF v.kind # "list" THEN [cache |-> c, err |-> AttributeError]
             ELSE RemoveInSlots(
                    [c EXCEPT !.news[cat][i].v = ListBucket(SelectSeqNotId(v.items, news_id))],
                    Tail(slots), news_id)

remove_news(c, news_id) ==
    LET c1 == [c EXCEPT !.all_news = SelectSeqNotId(@, news_id),
                        !.featured = SelectSeqNotId(@, news_id)]
    IN  RemoveInSlots(c1, Slots(c1), news_id)

(* CacheManager.set_stock_news *)
set_stock_news(c, symbol, news_list, now) ==
    [c EXCEPT !.news["stock"] =
        DictSet(@, symbol, TtlBucket(news_list, now + StockCacheTtl))]

(* The symbols column is None or the one symbol fetch_stock_news writes,   *)
(* in upper case: (symbols or "").upper().split(",")                       *)
SymbolsOf(d) == IF d.symbols = None THEN {} ELSE {d.symbols}

(* get_stock_news, lines 136-142: the flat-list dicts of the symbol *)
ScanStock(c, symbol, limit) ==
    LET filtered == SelectSeq(c.all_news, LAMBDA e : symbol \in SymbolsOf(e.d))
    IN  [i \in 1..Min(limit, Len(filtered)) |-> filtered[i].d]

(* A symbol cache whose lists never expire *)
get_stock_news_ignoring_expiry(c, symbol, limit, now) ==
    IF DictHas(c.news["stock"], symbol)
    THEN LET cached == DictGet(c.news["stock"], symbol)
         IN  IF cached.kind # "ttl" THEN [news |-> <<>>, err |-> AttributeError]
             ELSE [news |-> [i \in 1..Min(limit, Len(cached.news)) |-> cached.news[i].d],
                   err |-> NoErr]
    ELSE [news |-> ScanStock(c, symbol, limit), err |-> NoErr]

(* CacheManager.get_stock_news at time now.  .get on the list load_from_db *)
(* and add_news keep under a stock subcategory raises.                     *)
get_stock_news(c, symbol, limit, now) ==
    IF DictHas(c.news["stock"], symbol)
    THEN LET cached == DictGet(c.news["stock"], symbol)
         IN  IF cached.kind # "ttl" THEN [news |-> <<>>, err |-> AttributeError]
             ELSE IF cached.expires_at > now
             THEN [news |-> [i \in 1..Min(limit, Len(cached.news)) |-> cached.news[i].d],
                   err |-> NoErr]
             ELSE [news |-> ScanStock(c, symbol, limit), err |-> NoErr]
    ELSE [news |-> ScanStock(c, symbol, limit), err |-> NoErr]

(* CacheManager.load_from_db.  rows: the query's result, published rows    *)
(* newest first; each row becomes one dict shared by the three indices.    *)
SubOrGeneral(sub) == IF sub = None THEN "general" ELSE sub

RECURSIVE LoadRows(_, _)
LoadRows(c, rows) ==
    IF rows = <<>> THEN c
    ELSE LET row == Head(rows)
             e == [ref |-> FreshRef(c), d |-> to_dict(row)]
             cat == row.category
             sub == SubOrGeneral(row.subcategory)
             c1 == IF cat \in CategorySet
                   THEN [c EXCEPT !.news[cat] =
                           IF DictHas(@, sub)
                           THEN DictSet(@, sub, ListBucket(Append(DictGet(@, sub).items, e)))
                           ELSE DictSet(@, sub, ListBucket(<<e>>))]
                   ELSE c
             c2 == [c1 EXCEPT !.all_news = Append(@, e)]
             c3 == IF row.is_featured THEN [c2 EXCEPT !.featured = Append(@, e)] ELSE c2
         IN  LoadRows(c3, Tail(rows))

(* A load that adds the rows to what the cache holds *)
load_incremental(c, rows) == LoadRows(c, rows)

load_from_db(c, rows) == LoadRows(EmptyCache, rows)

(* The result of db.query(News).filter(is_published).order_by(fetched_at   *)
(* desc): any order of the published rows that is newest first.            *)
PublishedNewestFirst(table) ==
    LET pub == {r \in table : r.is_published}
    IN  {s \in [1..Cardinality(pub) -> pub] :
            /\ \A i, j \in 1..Cardinality(pub) : i # j => s[i] # s[j]
            /\ \A i, j \in 1..Cardinality(pub) : i < j => s[i].fetched_at >= s[j].fetched_at}

----------------------------------------------------------------------------
(* Titles.  A title is the first len characters of the text stem, so two   *)
(* titles are equal when stem and len are, and slicing changes len only.   *)

Title(stem, len) == [stem |-> stem, len |-> len]

(* str[:n] *)
Slice(t, n) == Title(t.stem, Min(t.len, n))

EmptyTitle == Title(<<"", "", 0>>, 0)

----------------------------------------------------------------------------
(* Jobs: one market-style and one news-style job of DEFAULT_SCHEDULE_CONFIG *)

JobNames == <<"market_pre_market", "sector_auto">>

JobSet == {JobNames[i] : i \in 1..Len(JobNames)}

JobCategory(j) == IF j = "market_pre_market" THEN "market" ELSE "sector"

JobSubcategory(j) == IF j = "market_pre_market" THEN "pre_market" ELSE "auto"

(* The timing columns of a schedule_jobs row.  cron_time is held as the    *)
(* list cron_time.split(":") with every field already through int(): the   *)
(* sample texts have numeric fields only.  NULL and "" are <<>>; a NULL    *)
(* interval_minutes is 0, which the code's truth tests treat alike.        *)
ScheduleType(j) == IF j = "market_pre_market" THEN "cron" ELSE "interval"

DefaultCronTime(j) == IF j = "market_pre_market" THEN <<7, 0>> ELSE <<>>

DefaultIntervalMinutes(j) == IF j = "sector_auto" THEN DefaultInterval ELSE 0

DefaultJob(j) ==
    [is_enabled |-> TRUE, last_run |-> NoTime, schedule_type |-> ScheduleType(j),
     cron_time |-> DefaultCronTime(j), interval_minutes |-> DefaultIntervalMinutes(j)]

----------------------------------------------------------------------------
(* APScheduler 3.x triggers, at the clock's granularity of one minute.  A  *)
(* value of the clock stands for an instant inside that minute.            *)

ValueError == "ValueError"

NoTrigger == [kind |-> "none", param |-> 0, next_fire |-> NoTime]

(* hour, minute = map(int, cron_time.split(":")) and the field checks of   *)
(* CronTrigger(hour=, minute=)                                             *)
ParseCron(cron_time) ==
    IF Len(cron_time) # 2 THEN [err |-> ValueError, at |-> 0]
    ELSE IF cron_time[1] \notin 0..(HoursPerDay - 1)
            \/ cron_time[2] \notin 0..(MinutesPerHour - 1)
    THEN [err |-> ValueError, at |-> 0]
    ELSE [err |-> NoErr, at |-> cron_time[1] * MinutesPerHour + cron_time[2]]

(* CronTrigger.get_next_fire_time(None, now): the next HH:MM after now *)
NextCron(at, now) ==
    LET today == now - (now % MinutesPerDay) + at
    IN  IF today > now THEN today ELSE today + MinutesPerDay

(* An interval trigger that is due as soon as it is registered *)
FirstIntervalAtOnce(minutes, now) == now

(* IntervalTrigger(minutes=n): start_date is the time of construction plus *)
(* the interval, and that is the first run time                            *)
FirstInterval(minutes, now) == now + minutes

(* The trigger _add_job_to_scheduler builds for a row, lines 145-152 *)
BuildTrigger(job, now) ==
    IF job.schedule_type = "cron" /\ job.cron_time # <<>>
    THEN LET p == ParseCron(job.cron_time)
         IN  IF p.err # NoErr THEN [err |-> p.err, trigger |-> NoTrigger]
             ELSE [err |-> NoErr,
                   trigger |-> [kind |-> "cron", param |-> p.at,
                                next_fire |-> NextCron(p.at, now)]]
    ELSE IF job.schedule_type = "interval" /\ job.interval_minutes # 0
    THEN [err |-> NoErr,
          trigger |-> [kind |-> "interval", param |-> job.interval_minutes,
                       next_fire |-> FirstInterval(job.interval_minutes, now)]]
    ELSE [err |-> NoErr, trigger |-> NoTrigger]

Period(tr) == IF tr.kind = "cron" THEN MinutesPerDay ELSE tr.param

(* Trigger.get_next_fire_time(previous, now) after the run times up to now *)
(* have been collected: the first run time of the trigger later than now   *)
NextRun(tr, now) ==
    tr.next_fire + Period(tr) * (((now - tr.next_fire) \div Period(tr)) + 1)

(* The timing fields the admin form posts for a job: a time for a cron     *)
(* job, parsable or not, minutes for an interval job                       *)
SampleTimings(j) ==
    IF ScheduleType(j) = "cron"
    THEN {[cron_time |-> <<8, 0>>, interval_minutes |-> 0],
          [cron_time |-> <<25, 0>>, interval_minutes |-> 0]}
    ELSE {[cron_time |-> <<>>, interval_minutes |-> SampleInterval]}

(* Threads.  Every admin endpoint is an "async def" that calls the         *)
(* scheduler service synchronously, so the event loop runs one at a time;  *)
(* _run_job runs on the APScheduler pool.                                  *)
Web == 0

Workers == 1..NumWorkers

Threads == Workers \cup {Web}

NoResult == [success |-> FALSE, error |-> "none", news_count |-> 0]

NoTally == [success |-> 0, failed |-> 0, total_news |-> 0]

(* A thread before its first call.  exit, result and tally are what its    *)
(* last call gave its caller; fetched, made and store_failed describe its  *)
(* last process_job: the error of the provider's answer, the articles of   *)
(* the answer, the ids it flushed, and whether a flush or commit of it     *)
(* failed.                                                                 *)
Fresh ==
    [pc |-> "idle", origin |-> "none", job |-> "none", queue |-> <<>>,
     articles |-> <<>>, title |-> EmptyTitle, score |-> 0, now |-> 0, cur |-> NoDict, count |-> 0,
     pending |-> <<>>, broken |-> FALSE,
     fetched |-> "none", answer |-> <<>>, made |-> {}, store_failed |-> FALSE,
     logged |-> <<>>,
     result |-> NoResult, exit |-> "none", tally |-> NoTally]

(* A thread between calls: the session is closed, the call's locals gone *)
Idle(c, exit, result, tally) ==
    [Fresh EXCEPT !.fetched = c.fetched, !.answer = c.answer, !.made = c.made,
                  !.logged = c.logged,
                  !.store_failed = c.store_failed,
                  !.result = result, !.exit = exit, !.tally = tally]

PipeIdle ==
    /\ db_jobs = [j \in JobSet |-> DefaultJob(j)]
    /\ api_logs = <<>>
    /\ next_id = 1
    /\ triggers = JobSet
    /\ ctx = [t \in Threads |-> Fresh]
    /\ runs = 0

(* init_jobs_from_db: a trigger for every enabled row, built at start-up *)
init_jobs_from_db(jobs, now) ==
    [j \in JobSet |->
        IF jobs[j].is_enabled THEN BuildTrigger(jobs[j], now).trigger ELSE NoTrigger]

(* The scheduler and the cache lock after the lifespan start-up of main.py *)
Started ==
    /\ clock = StartTime
    /\ ticks = 0
    /\ paused = FALSE
    /\ running = TRUE
    /\ trig = init_jobs_from_db([j \in JobSet |-> DefaultJob(j)], StartTime)
    /\ last_fire = [j \in JobSet |-> NoTime]
    /\ lock = "free"
    /\ loader = "idle"

----------------------------------------------------------------------------
(* SpecCache: every CacheManager call, in any order, with arguments from   *)
(* small sets; load_from_db reads any of the sample stores.                *)

SampleKinds == <<[category |-> "market", subcategory |-> "general"],
                 [category |-> "stock", subcategory |-> "SYM"],
                 [category |-> "other", subcategory |-> "general"]>>

KindOf(id) == SampleKinds[((id - 1) % Len(SampleKinds)) + 1]

SampleRow(id, pub, feat, t) ==
    [id |-> id, title |-> Title(<<"p", "row", id>>, 12),
     category |-> KindOf(id).category, subcategory |-> KindOf(id).subcategory,
     symbols |-> IF KindOf(id).category = "stock" THEN KindOf(id).subcategory ELSE None,
     sentiment_score |-> 0, fetched_at |-> t,
     is_published |-> pub, is_featured |-> feat]

Ids == 1..MaxId

SampleStores ==
    {{SampleRow(id, pub[id], id % 2 = 1, id) : id \in Ids} : pub \in [Ids -> BOOLEAN]}

SampleDicts == {to_dict(SampleRow(id, TRUE, feat, 0)) : id \in Ids, feat \in BOOLEAN}

SampleUpdates == {[is_featured |-> TRUE]}

SampleSymbols == {"SYM"}

(* limit: the stock page's 20, and 1 *)
SampleLimits == {1, 20}

InitCache ==
    /\ cache = EmptyCache
    /\ db_news = {}
    /\ PipeIdle
    /\ Started

(* "with self._lock:" of a call that touches memory only: the call waits   *)
(* for the lock and is one step.                                           *)
WithLock == lock = "free"

(* load_from_db(db) up to its db.query(News): the lock is taken, the lists *)
(* are cleared (no other call can see that before the lock is released)    *)
(* and the thread waits for the store.                                     *)
LoadFromDbQuery ==
    /\ lock = "free" /\ loader = "idle"
    /\ lock' = "held" /\ loader' = "query_news"
    /\ UNCHANGED <<cache, db_news, clock, ticks, pipeVars, schedVars>>

(* load_from_db(db) from the answer of the store on: the store is whatever *)
(* the rest of the program has made of it by the time of the query.        *)
CallLoadFromDb ==
    \E table \in SampleStores :
        \E rows \in PublishedNewestFirst(table) :
            /\ loader = "query_news"
            /\ cache' = load_from_db(cache, rows)
            /\ lock' = "free" /\ loader' = "idle"
            /\ UNCHANGED <<db_news, clock, ticks, pipeVars, schedVars>>

(* load_symbols(db): the same shape around db.query(StockSymbol); the      *)
(* symbol lists are no part of the news cache.                             *)
LoadSymbolsQuery ==
    /\ lock = "free" /\ loader = "idle"
    /\ lock' = "held" /\ loader' = "query_symbols"
    /\ UNCHANGED <<cache, db_news, clock, ticks, pipeVars, schedVars>>

CallLoadSymbols ==
    /\ loader = "query_symbols"
    /\ lock' = "free" /\ loader' = "idle"
    /\ UNCHANGED <<cache, db_news, clock, ticks, pipeVars, schedVars>>

CallAddNews ==
    \E nd \in SampleDicts :
        /\ WithLock
        /\ Len(cache.all_news) < MaxCacheLen
        /\ cache' = add_news(cache, nd, FreshRef(cache)).cache
        /\ UNCHANGED <<db_news, clock, ticks, pipeVars, schedVars, lockVars>>

CallUpdateNews ==
    \E id \in Ids, updates \in SampleUpdates :
        /\ WithLock
        /\ cache' = update_news(cache, id, updates).cache
        /\ UNCHANGED <<db_news, clock, ticks, pipeVars, schedVars, lockVars>>

CallRemoveNews ==
    \E id \in Ids :
        /\ WithLock
        /\ cache' = remove_news(cache, id).cache
        /\ UNCHANGED <<db_news, clock, ticks, pipeVars, schedVars, lockVars>>

(* set_stock_news as fetch_stock_news calls it: the list holds fresh dicts *)
CallSetStockNews ==
    \E symbol \in SampleSymbols, id \in Ids :
        /\ WithLock
        /\ LET news_list == <<[ref |-> FreshRef(cache),
                               d |-> to_dict(SampleRow(id, TRUE, FALSE, clock))]>>
           IN  cache' = set_stock_news(cache, symbol, news_list, clock)
        /\ UNCHANGED <<db_news, clock, ticks, pipeVars, schedVars, lockVars>>

(* A registered trigger whose run time has come *)
Due(j) == j \in triggers /\ trig[j].next_fire <= clock

(* Time passes: by TickMinutes or up to the next run time of a trigger.    *)
(* A running scheduler wakes up at every run time, so the clock does not   *)
(* pass one that has not been served; a paused scheduler, or one not yet   *)
(* started, sleeps through.                                                *)
Tick ==
    /\ ticks < MaxTicks
    /\ ~running \/ paused \/ \A j \in JobSet : ~Due(j)
    /\ \E t \in {clock + TickMinutes} \cup {trig[j].next_fire : j \in triggers} :
          /\ t > clock
          /\ ~running \/ paused \/ \A j \in triggers : t <= trig[j].next_fire
          /\ clock' = t
    /\ ticks' = ticks + 1
    /\ UNCHANGED <<cache, db_news, pipeVars, schedVars, lockVars>>

NextCache ==
    \/ LoadFromDbQuery
    \/ CallLoadFromDb
    \/ LoadSymbolsQuery
    \/ CallLoadSymbols
    \/ CallAddNews
    \/ CallUpdateNews
    \/ CallRemoveNews
    \/ CallSetStockNews
    \/ Tick

SpecCache == InitCache /\ [][NextCache]_vars

----------------------------------------------------------------------------
(* Spec: job executions on the scheduler's pool and from the admin         *)
(* endpoints, interleaved at every provider call, store call and cache     *)
(* call.  A thread's SQLAlchemy session holds the rows it has flushed and  *)
(* not committed (pending); a failed flush or commit rolls them back and   *)
(* leaves the session unusable until rollback(), which the code never      *)
(* calls (broken).                                                         *)

NotConfigured == "API key not configured"
ProviderError == "provider error"
RaisedError == "exception"

TitleA == Title(<<"p", "a", 0>>, MinTitleLen + 2)
TitleShort == Title(<<"p", "a", 0>>, MinTitleLen - 5)
TitleLong == Title(<<"p", "long", 0>>, MaxTitleLen + 1)

(* What the provider may answer *)
SampleMarketTitles == {EmptyTitle, TitleShort, TitleA, TitleLong}

SampleArticleLists ==
    {<<>>, <<TitleA>>, <<TitleShort, TitleA>>, <<TitleA, TitleA>>, <<TitleLong>>}

(* The sentiment_score of the sample answers: 0 where the answer is not    *)
(* structured (fetch_summary line 113), SampleSentiment with a title       *)
SentimentOf(title) == IF title.len = 0 THEN 0 ELSE SampleSentiment

(* response.text of the provider: a JSON object, with the title or the     *)
(* articles asked for, or text that json.loads does not take               *)
JsonResponse(title, articles) == [json |-> TRUE, title |-> title, articles |-> articles]

TextResponse == [json |-> FALSE, title |-> EmptyTitle, articles |-> <<>>]

SampleResponses(j) ==
    {TextResponse}
    \cup (IF JobCategory(j) = "market"
          THEN {JsonResponse(t, <<>>) : t \in SampleMarketTitles}
          ELSE {JsonResponse(EmptyTitle, a) : a \in SampleArticleLists})

(* AsyncGeminiService.fetch_summary, lines 104-122: the dict returned for  *)
(* a response.  content is the formatted summary of the JSON object, or    *)
(* the raw text where the response does not parse.                         *)
fetch_summary(response) ==
    IF response.json
    THEN [error |-> None, content |-> "formatted", title |-> response.title,
          sentiment_score |-> SentimentOf(response.title), articles |-> <<>>]
    ELSE [error |-> None, content |-> "raw", title |-> EmptyTitle,
          sentiment_score |-> 0, articles |-> <<>>]

(* AsyncGeminiService.fetch_news, lines 152-162: the articles of the JSON  *)
(* object, or no articles where the response does not parse.               *)
fetch_news(response) ==
    IF response.json
    THEN [error |-> None, content |-> None, title |-> EmptyTitle,
          sentiment_score |-> 0, articles |-> response.articles]
    ELSE [error |-> None, content |-> None, title |-> EmptyTitle,
          sentiment_score |-> 0, articles |-> <<>>]

(* AsyncGeminiService.fetch_summary / fetch_news: the dict returned, for   *)
(* a missing API key, a failed provider call, or a response                *)
FetchResults(j) ==
    {[error |-> NotConfigured, content |-> None, title |-> EmptyTitle,
      sentiment_score |-> 0, articles |-> <<>>],
     [error |-> ProviderError, content |-> None, title |-> EmptyTitle,
      sentiment_score |-> 0, articles |-> <<>>]}
    \cup {IF JobCategory(j) = "market" THEN fetch_summary(response)
          ELSE fetch_news(response) : response \in SampleResponses(j)}

(* AsyncGeminiService._log_api_call *)
ApiCallLog(j, status, n, by) ==
    [event_type |-> "api_call", job_name |-> j, status |-> status,
     news_count |-> n, triggered_by |-> by]

(* SchedulerService._log_event *)
EventLog(j, status) ==
    [event_type |-> "scheduler", job_name |-> j, status |-> status,
     news_count |-> 0, triggered_by |-> "scheduler"]

TriggeredBy(origin) == IF origin = "run_job" THEN "scheduler" ELSE "manual"

(* AsyncRequestProcessor._generate_title *)
DateOf(t) == t \div MinutesPerDay

GeneratedLen == 33

_generate_title(subcategory, now) ==
    Title(<<"gen",
            IF subcategory \in {"pre_market", "morning", "midday", "post_market", "evening"}
            THEN subcategory ELSE "default",
            DateOf(now)>>, GeneratedLen)

(* News(...) as the two job kinds build it *)
NewsRow(id, title, score, j, now) ==
    [id |-> id, title |-> title, category |-> JobCategory(j),
     subcategory |-> JobSubcategory(j), symbols |-> None, sentiment_score |-> score,
     fetched_at |-> now, is_published |-> TRUE, is_featured |-> FALSE]

(* A market job that always writes its own title *)
MarketTitleGenerated(result_title, subcategory, now) == _generate_title(subcategory, now)

(* _process_market_job: title = result.get("title") or _generate_title() *)
MarketTitle(result_title, subcategory, now) ==
    IF result_title.len = 0 THEN _generate_title(subcategory, now) ELSE result_title

(* _process_news_job: if not title or len(title) < 10: continue *)
TitleTooShort(title) == title.len = 0 \/ title.len < MinTitleLen

(* db.query(News).filter(News.title == title).first(): the session sees    *)
(* the committed rows and its own flushed ones.                            *)
Visible(t) == db_news \cup SeqRange(ctx[t].pending)

TitleExists(rows, title) == \E r \in rows : r.title = title

(* News(title=title[:500], ...) *)
StoredTitle(title) == Slice(title, MaxTitleLen)

(* Session.commit *)
Committed(table, pending) == table \cup SeqRange(pending)

----------------------------------------------------------------------------
(* How process_job's result or exception goes back to its caller *)

Success(n) == [success |-> TRUE, error |-> "none", news_count |-> n]
Failure(e) == [success |-> FALSE, error |-> e, news_count |-> 0]

JobState(c, j) ==
    [c EXCEPT !.pc = "fetch", !.job = j, !.articles = <<>>, !.title = EmptyTitle,
              !.score = 0, !.now = 0, !.cur = NoDict, !.count = 0,
              !.answer = <<>>, !.made = {}, !.store_failed = FALSE, !.logged = <<>>]

(* run_all_jobs_now: the for loop moves on to the next job *)
NextOfAll(c, tally) ==
    IF c.queue = <<>> THEN Idle(c, "returned", NoResult, tally)
    ELSE [JobState(c, Head(c.queue)) EXCEPT !.queue = Tail(c.queue), !.tally = tally]

Return(c, result) ==
    CASE c.origin = "run_job" -> [c EXCEPT !.pc = "log", !.result = result]
      [] c.origin = "run_job_now" -> Idle(c, "returned", result, NoTally)
      [] OTHER ->
            NextOfAll(c, IF result.success
                         THEN [c.tally EXCEPT !.success = @ + 1,
                                              !.total_news = @ + result.news_count]
                         ELSE [c.tally EXCEPT !.failed = @ + 1])

Raise(c, broken) ==
    LET c1 == [c EXCEPT !.broken = @ \/ broken,
                        !.pending = IF broken THEN <<>> ELSE @]
    IN  CASE c.origin = "run_job" -> [c1 EXCEPT !.pc = "except"]
          [] c.origin = "run_job_now" ->
                Idle(c, "returned", Failure(RaisedError), NoTally)
          [] OTHER -> NextOfAll(c1, [c.tally EXCEPT !.failed = @ + 1])

InFlight(t) ==
    ctx[t].pc \notin {"idle", "log", "except", "remove_job", "add_job",
                      "toggle_cache", "detail_query", "detail_add",
                      "create_cache", "edit_cache", "delete_cache"}

(* _process_market_job / _process_news_job after the fetch call: an error  *)
(* result is returned at once, anything else goes on to build records.     *)
RECURSIVE SkipAllShort(_)
SkipAllShort(articles) ==
    IF articles # <<>> /\ TitleTooShort(Head(articles))
    THEN SkipAllShort(Tail(articles)) ELSE articles

(* the for loop up to its next store call: the duplicate query of the next *)
(* article that is long enough, or the commit after the last article       *)
LoopOn(c, articles) ==
    LET rest == SkipAllShort(articles)
    IN  [c EXCEPT !.articles = rest,
                  !.pc = IF rest = <<>> THEN "n_commit" ELSE "n_check"]

(* A pipeline that does not look at the error of the provider's answer *)
AfterFetchIgnoringError(c, res, now) ==
    IF JobCategory(c.job) = "market"
    THEN [c EXCEPT !.pc = "m_flush", !.title = res.title,
                   !.score = res.sentiment_score, !.now = now]
    ELSE LoopOn([c EXCEPT !.now = now], res.articles)

AfterFetch(c, res, now) ==
    IF res.error # None THEN Return(c, Failure(res.error))
    ELSE IF JobCategory(c.job) = "market"
    THEN [c EXCEPT !.pc = "m_flush", !.title = res.title,
                   !.score = res.sentiment_score, !.now = now]
    ELSE LoopOn([c EXCEPT !.now = now], res.articles)

(* A scheduler that goes on firing while it is paused *)
CanFireIgnoringPause(j) == running /\ Due(j) /\ trig[j].next_fire = clock

(* BackgroundScheduler._process_jobs: a scheduler that is not started or   *)
(* is paused processes no job; a running one fires a trigger at its run    *)
(* time.                                                                   *)
CanFire(j) == running /\ ~paused /\ Due(j) /\ trig[j].next_fire = clock

----------------------------------------------------------------------------
(* A _run_job that starts the execution without looking at the job's row *)
RunJobWithoutLookup(w, j) ==
    /\ ctx[w].pc = "idle"
    /\ CanFire(j)
    /\ \A w2 \in Workers : ctx[w2].job # j
    /\ runs < MaxRuns
    /\ runs' = runs + 1
    /\ ctx' = [ctx EXCEPT ![w] = [JobState(Fresh, j) EXCEPT !.origin = "run_job"]]
    /\ trig' = [trig EXCEPT ![j].next_fire = NextRun(trig[j], clock)]
    /\ last_fire' = [last_fire EXCEPT ![j] = trig[j].next_fire]
    /\ UNCHANGED <<cache, db_news, db_jobs, api_logs, next_id, triggers, clock, ticks,
                   paused, running, lockVars>>

(* The scheduler fires the trigger of job j at its run time: _run_job(j)   *)
(* on a pool thread, and the trigger's next run time moves on.  add_job is *)
(* called without max_instances, so APScheduler runs at most one instance  *)
(* of a job id at a time.                                                  *)
RunJob(w, j) ==
    /\ ctx[w].pc = "idle"
    /\ CanFire(j)
    /\ \A w2 \in Workers : ctx[w2].job # j
    /\ runs < MaxRuns
    /\ runs' = runs + 1
    /\ ctx' = [ctx EXCEPT ![w] =
                 IF db_jobs[j].is_enabled
                 THEN [JobState(Fresh, j) EXCEPT !.origin = "run_job"]
                 ELSE Idle(Fresh, "returned", NoResult, NoTally)]
    /\ trig' = [trig EXCEPT ![j].next_fire = NextRun(trig[j], clock)]
    /\ last_fire' = [last_fire EXCEPT ![j] = trig[j].next_fire]
    /\ UNCHANGED <<cache, db_news, db_jobs, api_logs, next_id, triggers, clock, ticks,
                   paused, running, lockVars>>

(* The scheduler drops a run: its time was missed by more than the         *)
(* misfire grace of one second (the scheduler was paused), or the job's    *)
(* one instance is still running.  Only the next run time moves on.        *)
SkipRun(j) ==
    /\ running /\ ~paused
    /\ Due(j)
    /\ trig[j].next_fire < clock \/ \E w \in Workers : ctx[w].job = j
    /\ trig' = [trig EXCEPT ![j].next_fire = NextRun(trig[j], clock)]
    /\ UNCHANGED <<cache, db_news, pipeVars, clock, ticks, paused, last_fire, running, lockVars>>

(* A manual run that waits for the job's run time and takes the place of   *)
(* the scheduled run                                                       *)
RunJobNowWhenDue(j) ==
    /\ ctx[Web].pc = "idle"
    /\ Due(j)
    /\ runs < MaxRuns
    /\ runs' = runs + 1
    /\ ctx' = [ctx EXCEPT ![Web] = [JobState(Fresh, j) EXCEPT !.origin = "run_job_now"]]
    /\ trig' = [trig EXCEPT ![j].next_fire = NextRun(trig[j], clock)]
    /\ UNCHANGED <<cache, db_news, db_jobs, api_logs, next_id, triggers, clock, ticks,
                   paused, last_fire, running, lockVars>>

(* run_job_now(db, j) from the admin endpoint *)
RunJobNow(j) ==
    /\ ctx[Web].pc = "idle"
    /\ runs < MaxRuns
    /\ runs' = runs + 1
    /\ ctx' = [ctx EXCEPT ![Web] = [JobState(Fresh, j) EXCEPT !.origin = "run_job_now"]]
    /\ UNCHANGED <<cache, db_news, db_jobs, api_logs, next_id, triggers, clock, ticks, schedVars, lockVars>>

(* run_all_jobs_now(db) from the admin endpoint: one session, one          *)
(* processor, the enabled jobs in turn                                     *)
RunAllJobsNow ==
    LET enabled == SelectSeq(JobNames, LAMBDA j : db_jobs[j].is_enabled)
    IN  /\ ctx[Web].pc = "idle"
        /\ runs + Len(enabled) <= MaxRuns
        /\ runs' = runs + Len(enabled)
        /\ ctx' = [ctx EXCEPT ![Web] =
                     NextOfAll([Fresh EXCEPT !.origin = "run_all", !.queue = enabled],
                               NoTally)]
        /\ UNCHANGED <<cache, db_news, db_jobs, api_logs, next_id, triggers, clock, ticks, schedVars, lockVars>>

(* scheduler_toggle_job and toggle_job up to its commit: the enabled flag  *)
(* is flipped in the store; the scheduler is updated next.                 *)
ToggleJob(j) ==
    /\ ctx[Web].pc = "idle"
    /\ db_jobs' = [db_jobs EXCEPT ![j].is_enabled = ~@]
    /\ ctx' = [ctx EXCEPT ![Web] =
                 [@ EXCEPT !.pc = "remove_job", !.origin = "toggle_job", !.job = j,
                           !.exit = "none"]]
    /\ UNCHANGED <<cache, db_news, api_logs, next_id, triggers, runs, clock, ticks,
                   schedVars, lockVars>>

(* scheduler_edit_job and update_job_timing up to its commit: a field that *)
(* is given and true replaces the column.                                  *)
UpdateJobTiming(j) ==
    \E timing \in SampleTimings(j) :
        /\ ctx[Web].pc = "idle"
        /\ db_jobs' = [db_jobs EXCEPT
                         ![j].cron_time =
                             IF timing.cron_time # <<>> THEN timing.cron_time ELSE @,
                         ![j].interval_minutes =
                             IF timing.interval_minutes # 0
                             THEN timing.interval_minutes ELSE @]
        /\ ctx' = [ctx EXCEPT ![Web] =
                     [@ EXCEPT !.pc = "remove_job", !.origin = "update_job_timing",
                               !.job = j, !.exit = "none"]]
        /\ UNCHANGED <<cache, db_news, api_logs, next_id, triggers, runs, clock, ticks,
                       schedVars, lockVars>>

(* The call has ended on the web thread *)
Ended(c, exit) == [c EXCEPT !.pc = "idle", !.origin = "none", !.job = "none", !.exit = exit]

(* _add_job_to_scheduler lines 138-143 and toggle_job lines 202-204: the   *)
(* job's trigger, if any, is removed; a disabled job is left at that.      *)
RemoveJob ==
    /\ ctx[Web].pc = "remove_job"
    /\ LET j == ctx[Web].job
       IN  /\ triggers' = triggers \ {j}
           /\ trig' = [trig EXCEPT ![j] = NoTrigger]
           /\ ctx' = [ctx EXCEPT ![Web] =
                        IF db_jobs[j].is_enabled THEN [@ EXCEPT !.pc = "add_job"]
                        ELSE Ended(@, "returned")]
    /\ UNCHANGED <<cache, db_news, db_jobs, api_logs, next_id, runs, clock, ticks,
                   paused, last_fire, running, lockVars>>

(* _add_job_to_scheduler lines 145-161: the trigger is built from the row  *)
(* and registered; a cron_time that does not parse raises ValueError out   *)
(* of the endpoint.                                                        *)
AddJob ==
    /\ ctx[Web].pc = "add_job"
    /\ LET j == ctx[Web].job
           b == BuildTrigger(db_jobs[j], clock)
       IN  IF b.err # NoErr
           THEN /\ ctx' = [ctx EXCEPT ![Web] = Ended(@, "raised")]
                /\ UNCHANGED <<triggers, trig>>
           ELSE /\ ctx' = [ctx EXCEPT ![Web] = Ended(@, "returned")]
                /\ IF b.trigger = NoTrigger
                   THEN UNCHANGED <<triggers, trig>>
                   ELSE /\ triggers' = triggers \cup {j}
                        /\ trig' = [trig EXCEPT ![j] = b.trigger]
    /\ UNCHANGED <<cache, db_news, db_jobs, api_logs, next_id, runs, clock, ticks,
                   paused, last_fire, running, lockVars>>

(* scheduler_pause / pause_all *)
PauseAll ==
    /\ ctx[Web].pc = "idle"
    /\ paused' = TRUE
    /\ UNCHANGED <<cache, db_news, pipeVars, clock, ticks, trig, last_fire, running, lockVars>>

(* scheduler_resume / resume_all *)
ResumeAll ==
    /\ ctx[Web].pc = "idle"
    /\ paused' = FALSE
    /\ UNCHANGED <<cache, db_news, pipeVars, clock, ticks, trig, last_fire, running, lockVars>>

(* The api_logs row fetch_summary / fetch_news writes for the answer res *)
FetchLog(t, res) ==
    ApiCallLog(ctx[t].job,
               IF res.error = None THEN "success" ELSE "failed",
               IF res.error # None THEN 0
               ELSE IF JobCategory(ctx[t].job) = "market" THEN 1
               ELSE Len(res.articles),
               TriggeredBy(ctx[t].origin))

(* fetch_summary / fetch_news.  With no API key the call returns an error  *)
(* and logs nothing; otherwise it logs the attempt and commits.  On a      *)
(* session left broken by an earlier job of run_all_jobs_now the first     *)
(* query raises.  The commit of the log row itself is taken to succeed:    *)
(* store failures are modelled at the pipeline's own flush and commit.     *)
Fetch(t) ==
    /\ ctx[t].pc = "fetch"
    /\ IF ctx[t].broken
       THEN /\ ctx' = [ctx EXCEPT ![t] = Raise(ctx[t], FALSE)]
            /\ UNCHANGED <<api_logs, db_news>>
       ELSE \E res \in FetchResults(ctx[t].job) :
            /\ ctx' = [ctx EXCEPT ![t] =
                         AfterFetch([ctx[t] EXCEPT
                                       !.pending = IF res.error = NotConfigured
                                                   THEN @ ELSE <<>>,
                                       !.fetched = res.error,
                                       !.answer = res.articles,
                                       !.logged = IF res.error = NotConfigured
                                                  THEN @
                                                  ELSE Append(@, FetchLog(t, res))],
                                    res, clock)]
            /\ IF res.error = NotConfigured
               THEN UNCHANGED <<api_logs, db_news>>
               ELSE /\ api_logs' = Append(api_logs, FetchLog(t, res))
                    /\ db_news' = Committed(db_news, ctx[t].pending)
    /\ UNCHANGED <<cache, db_jobs, next_id, triggers, runs, clock, ticks, schedVars, lockVars>>

(* db.add(news); db.flush() *)
Flush(t, title, score, nextpc) ==
    \/ LET row == NewsRow(next_id, title, score, ctx[t].job, ctx[t].now)
       IN  /\ next_id' = next_id + 1
           /\ ctx' = [ctx EXCEPT ![t] =
                        [ctx[t] EXCEPT !.pending = Append(@, row), !.cur = row,
                                       !.made = @ \cup {row.id}, !.pc = nextpc]]
    \/ /\ ctx' = [ctx EXCEPT ![t] = Raise([ctx[t] EXCEPT !.store_failed = TRUE], TRUE)]
       /\ UNCHANGED next_id

(* job.last_run = now; db.commit() *)
Commit(t, after) ==
    \/ /\ db_news' = Committed(db_news, ctx[t].pending)
       /\ db_jobs' = [db_jobs EXCEPT ![ctx[t].job].last_run = ctx[t].now]
       /\ ctx' = [ctx EXCEPT ![t] = after]
    \/ /\ ctx' = [ctx EXCEPT ![t] = Raise([ctx[t] EXCEPT !.store_failed = TRUE], TRUE)]
       /\ UNCHANGED <<db_news, db_jobs>>

(* _process_market_job, lines 61-82 *)
MarketFlush(t) ==
    /\ ctx[t].pc = "m_flush"
    /\ Flush(t, MarketTitle(ctx[t].title, JobSubcategory(ctx[t].job), ctx[t].now),
             ctx[t].score, "m_commit")
    /\ UNCHANGED <<cache, db_news, db_jobs, api_logs, triggers, runs, clock, ticks, schedVars, lockVars>>

(* _process_market_job, lines 84-96 *)
MarketCommit(t) ==
    /\ ctx[t].pc = "m_commit"
    /\ Commit(t, [ctx[t] EXCEPT !.pending = <<>>, !.pc = "m_cache"])
    /\ UNCHANGED <<cache, api_logs, next_id, triggers, runs, clock, ticks, schedVars, lockVars>>

(* _process_market_job, lines 98-100 *)
MarketCache(t) ==
    /\ ctx[t].pc = "m_cache"
    /\ WithLock
    /\ LET r == add_news(cache, to_dict(ctx[t].cur), FreshRef(cache))
       IN  /\ cache' = r.cache
           /\ ctx' = [ctx EXCEPT ![t] =
                        IF r.err = NoErr THEN Return(ctx[t], Success(1))
                        ELSE Raise(ctx[t], FALSE)]
    /\ UNCHANGED <<db_news, db_jobs, api_logs, next_id, triggers, runs, clock, ticks, schedVars, lockVars>>

(* _process_news_job, lines 135-138: the duplicate query *)
NewsCheck(t) ==
    /\ ctx[t].pc = "n_check"
    /\ ctx' = [ctx EXCEPT ![t] =
                 IF TitleExists(Visible(t), Head(ctx[t].articles))
                 THEN LoopOn(ctx[t], Tail(ctx[t].articles))
                 ELSE [ctx[t] EXCEPT !.pc = "n_flush"]]
    /\ UNCHANGED <<cache, db_news, db_jobs, api_logs, next_id, triggers, runs, clock, ticks, schedVars, lockVars>>

(* _process_news_job, lines 140-156 *)
NewsFlush(t) ==
    /\ ctx[t].pc = "n_flush"
    /\ Flush(t, StoredTitle(Head(ctx[t].articles)), 0, "n_cache")
    /\ UNCHANGED <<cache, db_news, db_jobs, api_logs, triggers, runs, clock, ticks, schedVars, lockVars>>

(* _process_news_job, lines 158-169 *)
NewsCache(t) ==
    /\ ctx[t].pc = "n_cache"
    /\ WithLock
    /\ LET r == add_news(cache, to_dict(ctx[t].cur), FreshRef(cache))
       IN  /\ cache' = r.cache
           /\ ctx' = [ctx EXCEPT ![t] =
                        IF r.err = NoErr
                        THEN LoopOn([ctx[t] EXCEPT !.count = @ + 1], Tail(ctx[t].articles))
                        ELSE Raise(ctx[t], FALSE)]
    /\ UNCHANGED <<db_news, db_jobs, api_logs, next_id, triggers, runs, clock, ticks, schedVars, lockVars>>

(* _process_news_job, lines 171-175 *)
NewsCommit(t) ==
    /\ ctx[t].pc = "n_commit"
    /\ Commit(t, Return([ctx[t] EXCEPT !.pending = <<>>], Success(ctx[t].count)))
    /\ UNCHANGED <<cache, api_logs, next_id, triggers, runs, clock, ticks, schedVars, lockVars>>

(* _run_job, lines 76-91 and 101-102: log the result, close the session *)
RunJobLog(w) ==
    /\ ctx[w].pc = "log"
    /\ api_logs' = Append(api_logs,
          EventLog(ctx[w].job, IF ctx[w].result.success THEN "success" ELSE "failed"))
    /\ db_news' = Committed(db_news, ctx[w].pending)
    /\ ctx' = [ctx EXCEPT ![w] =
                 Idle([ctx[w] EXCEPT !.logged = Append(@,
                          EventLog(ctx[w].job,
                                   IF ctx[w].result.success THEN "success" ELSE "failed"))],
                      "returned", ctx[w].result, NoTally)]
    /\ UNCHANGED <<cache, db_jobs, next_id, triggers, runs, clock, ticks, schedVars, lockVars>>

(* _run_job, lines 93-102: the except block logs through the same session. *)
(* On a broken session _log_event's commit raises, and the exception       *)
(* leaves _run_job.                                                        *)
RunJobExcept(w) ==
    /\ ctx[w].pc = "except"
    /\ IF ctx[w].broken
       THEN /\ ctx' = [ctx EXCEPT ![w] =
                         Idle(ctx[w], "raised", Failure(RaisedError), NoTally)]
            /\ UNCHANGED <<api_logs, db_news>>
       ELSE /\ api_logs' = Append(api_logs, EventLog(ctx[w].job, "failed"))
            /\ db_news' = Committed(db_news, ctx[w].pending)
            /\ ctx' = [ctx EXCEPT ![w] =
                         Idle([ctx[w] EXCEPT !.logged =
                                  Append(@, EventLog(ctx[w].job, "failed"))],
                              "returned", Failure(RaisedError), NoTally)]
    /\ UNCHANGED <<cache, db_jobs, next_id, triggers, runs, clock, ticks, schedVars, lockVars>>

Next ==
    \/ \E w \in Workers, j \in JobSet : RunJob(w, j)
    \/ \E j \in JobSet : RunJobNow(j)
    \/ RunAllJobsNow
    \/ \E t \in Threads : Fetch(t)
    \/ \E t \in Threads : MarketFlush(t)
    \/ \E t \in Threads : MarketCommit(t)
    \/ \E t \in Threads : MarketCache(t)
    \/ \E t \in Threads : NewsCheck(t)
    \/ \E t \in Threads : NewsFlush(t)
    \/ \E t \in Threads : NewsCache(t)
    \/ \E t \in Threads : NewsCommit(t)
    \/ \E w \in Workers : RunJobLog(w)
    \/ \E w \in Workers : RunJobExcept(w)
    \/ \E j \in JobSet : SkipRun(j)
    \/ Tick

Init ==
    /\ cache = EmptyCache
    /\ db_news = {}
    /\ PipeIdle
    /\ Started

Spec == Init /\ [][Next]_vars

----------------------------------------------------------------------------
(* SpecSched: the scheduler under the admin's schedule endpoints.  The     *)
(* triggers fire _run_job on the pool; the deployment has no API key, so   *)
(* every execution ends at the provider's "not configured" answer.         *)

FetchNotConfigured(t) == Fetch(t) /\ ctx'[t].fetched = NotConfigured

NextSched ==
    \/ \E j \in JobSet : ToggleJob(j)
    \/ \E j \in JobSet : UpdateJobTiming(j)
    \/ RemoveJob
    \/ AddJob
    \/ PauseAll
    \/ ResumeAll
    \/ \E w \in Workers, j \in JobSet : RunJob(w, j)
    \/ \E j \in JobSet : SkipRun(j)
    \/ \E w \in Workers : FetchNotConfigured(w)
    \/ \E w \in Workers : RunJobLog(w)
    \/ Tick

SpecSched == Init /\ [][NextSched]_vars

----------------------------------------------------------------------------
(* SpecServe: the pipeline of Spec together with the two endpoints that    *)
(* put stored records into the cache: the admin's publish toggle and the   *)
(* detail page's by-id fallback.  Both run on the web event loop, one      *)
(* handler at a time, beside the executions on the pool.  Their sessions   *)
(* see committed rows only, and their commit is taken to succeed.          *)

(* The handler has returned *)
Served(c) == [Ended(c, "returned") EXCEPT !.cur = NoDict]

(* news_toggle, lines 383-387: the row is read, is_published is flipped    *)
(* and committed                                                           *)
NewsToggle(news_id) ==
    /\ ctx[Web].pc = "idle"
    /\ \E news \in db_news :
          /\ news.id = news_id
          /\ LET toggled == [news EXCEPT !.is_published = ~@]
             IN  /\ db_news' = (db_news \ {news}) \cup {toggled}
                 /\ ctx' = [ctx EXCEPT ![Web] =
                              [@ EXCEPT !.pc = "toggle_cache", !.origin = "news_toggle",
                                        !.cur = toggled, !.exit = "none"]]
    /\ UNCHANGED <<cache, db_jobs, api_logs, next_id, triggers, runs, clock, ticks,
                   schedVars, lockVars>>

(* news_toggle, lines 389-392: a published record is added to the cache,   *)
(* an unpublished one removed from it                                      *)
NewsToggleCache ==
    /\ ctx[Web].pc = "toggle_cache"
    /\ WithLock
    /\ LET news == ctx[Web].cur
           r == IF news.is_published
                THEN add_news(cache, to_dict(news), FreshRef(cache))
                ELSE remove_news(cache, news.id)
       IN  /\ cache' = r.cache
           /\ ctx' = [ctx EXCEPT ![Web] =
                        IF r.err = NoErr THEN Served(@)
                        ELSE [Served(@) EXCEPT !.exit = "raised"]]
    /\ UNCHANGED <<db_news, db_jobs, api_logs, next_id, triggers, runs, clock, ticks,
                   schedVars, lockVars>>

(* news_detail, lines 59-62: get_news_by_id finds nothing in the cache; a  *)
(* hit changes nothing.  The id asked for is one the store has given out.  *)
NewsDetail(news_id) ==
    /\ ctx[Web].pc = "idle"
    /\ news_id < next_id
    /\ WithLock
    /\ get_news_by_id(cache, news_id) = NoDict
    /\ ctx' = [ctx EXCEPT ![Web] =
                 [@ EXCEPT !.pc = "detail_query", !.origin = "news_detail",
                           !.cur = [id |-> news_id], !.exit = "none"]]
    /\ UNCHANGED <<cache, db_news, db_jobs, api_logs, next_id, triggers, runs, clock,
                   ticks, schedVars, lockVars>>

(* news_detail, line 63: the published row of that id, if the store has it *)
NewsDetailQuery ==
    /\ ctx[Web].pc = "detail_query"
    /\ LET found == {r \in db_news : r.id = ctx[Web].cur.id /\ r.is_published}
       IN  ctx' = [ctx EXCEPT ![Web] =
                     IF found = {} THEN Served(@)
                     ELSE [@ EXCEPT !.pc = "detail_add",
                                    !.cur = CHOOSE r \in found : TRUE]]
    /\ UNCHANGED <<cache, db_news, db_jobs, api_logs, next_id, triggers, runs, clock,
                   ticks, schedVars, lockVars>>

(* news_detail, lines 64-67: the row's dict is added to the cache *)
NewsDetailAdd ==
    /\ ctx[Web].pc = "detail_add"
    /\ WithLock
    /\ LET r == add_news(cache, to_dict(ctx[Web].cur), FreshRef(cache))
       IN  /\ cache' = r.cache
           /\ ctx' = [ctx EXCEPT ![Web] =
                        IF r.err = NoErr THEN Served(@)
                        ELSE [Served(@) EXCEPT !.exit = "raised"]]
    /\ UNCHANGED <<db_news, db_jobs, api_logs, next_id, triggers, runs, clock, ticks,
                   schedVars, lockVars>>

NextServe ==
    \/ \E w \in Workers, j \in JobSet : RunJob(w, j)
    \/ \E j \in JobSet : RunJobNow(j)
    \/ RunAllJobsNow
    \/ \E t \in Threads : Fetch(t)
    \/ \E t \in Threads : MarketFlush(t)
    \/ \E t \in Threads : MarketCommit(t)
    \/ \E t \in Threads : MarketCache(t)
    \/ \E t \in Threads : NewsCheck(t)
    \/ \E t \in Threads : NewsFlush(t)
    \/ \E t \in Threads : NewsCache(t)
    \/ \E t \in Threads : NewsCommit(t)
    \/ \E w \in Workers : RunJobLog(w)
    \/ \E w \in Workers : RunJobExcept(w)
    \/ \E j \in JobSet : SkipRun(j)
    \/ Tick
    \/ \E news_id \in 1..MaxRuns : NewsToggle(news_id)
    \/ NewsToggleCache
    \/ \E news_id \in 1..MaxRuns : NewsDetail(news_id)
    \/ NewsDetailQuery
    \/ NewsDetailAdd

SpecServe == Init /\ [][NextServe]_vars

----------------------------------------------------------------------------
(* SpecBoot: the lifespan start-up of main.py on a store left by an        *)
(* earlier run of the process, followed by the scheduled executions.  The  *)
(* web thread runs the start-up calls in order and serves no request       *)
(* before they have returned; the pool runs whatever the scheduler fires.  *)

(* A start-up that starts the scheduler before it loads the cache *)
BootOrderSchedulerFirst == <<"init_jobs_from_db", "start", "load_from_db", "load_symbols">>

(* lifespan, lines 139-146 *)
BootOrder == <<"load_from_db", "load_symbols", "init_jobs_from_db", "start">>

(* A seeding that writes the defaults over the rows it finds *)
_ensure_default_jobs_overwriting(table) == [j \in JobSet |-> DefaultJob(j)]

(* _ensure_default_jobs: a row is added for every name of                  *)
(* DEFAULT_SCHEDULE_CONFIG the table has no row for.  table is the         *)
(* schedule_jobs table by job name, with the names it has as its domain.   *)
_ensure_default_jobs(table) ==
    [j \in JobSet |-> IF j \in DOMAIN table THEN table[j] ELSE DefaultJob(j)]

(* The rows an earlier run can have left for job j: as seeded, disabled by *)
(* toggle_job, or retimed by update_job_timing                             *)
SampleJobRows(j) ==
    {DefaultJob(j), [DefaultJob(j) EXCEPT !.is_enabled = FALSE]} \cup
    {[DefaultJob(j) EXCEPT
        !.cron_time = IF timing.cron_time # <<>> THEN timing.cron_time ELSE @,
        !.interval_minutes = IF timing.interval_minutes # 0
                             THEN timing.interval_minutes ELSE @] :
        timing \in SampleTimings(j)}

SampleJobTables ==
    UNION {{table \in [names -> UNION {SampleJobRows(j) : j \in names}] :
               \A j \in names : table[j] \in SampleJobRows(j)} :
           names \in SUBSET JobSet}

(* init_jobs_from_db, lines 111-114: _add_job_to_scheduler for the enabled *)
(* rows in turn; a cron_time that does not parse raises out of the loop.   *)
RECURSIVE AddJobsInTurn(_, _, _, _)
AddJobsInTurn(names, jobs, now, acc) ==
    IF names = <<>> THEN [err |-> NoErr, trig |-> acc]
    ELSE LET j == Head(names)
             b == BuildTrigger(jobs[j], now)
         IN  IF ~jobs[j].is_enabled THEN AddJobsInTurn(Tail(names), jobs, now, acc)
             ELSE IF b.err # NoErr THEN [err |-> b.err, trig |-> acc]
             ELSE AddJobsInTurn(Tail(names), jobs, now, [acc EXCEPT ![j] = b.trigger])

InitBoot ==
    /\ cache = EmptyCache
    /\ db_news \in SampleStores
    /\ db_jobs \in SampleJobTables
    /\ api_logs = <<>>
    /\ next_id = MaxId + 1
    /\ triggers = {}
    /\ ctx = [t \in Threads |->
                IF t = Web
                THEN [Fresh EXCEPT !.pc = "boot", !.origin = "lifespan", !.queue = BootOrder]
                ELSE Fresh]
    /\ runs = 0
    /\ clock = StartTime
    /\ ticks = 0
    /\ paused = FALSE
    /\ running = FALSE
    /\ trig = [j \in JobSet |-> NoTrigger]
    /\ last_fire = [j \in JobSet |-> NoTime]
    /\ lock = "free"
    /\ loader = "idle"

(* The start-up stands at the call of that name *)
BootAt(name) ==
    ctx[Web].pc = "boot" /\ ctx[Web].queue # <<>> /\ Head(ctx[Web].queue) = name

(* The call has returned: on to the next one, or the application serves *)
BootNext(c) ==
    IF Tail(c.queue) = <<>> THEN [Ended(c, "returned") EXCEPT !.queue = <<>>]
    ELSE [c EXCEPT !.queue = Tail(@)]

(* cache_manager.load_from_db(db) up to its query: the lock is taken *)
BootLoadFromDbQuery ==
    /\ BootAt("load_from_db")
    /\ lock = "free" /\ loader = "idle"
    /\ lock' = "held" /\ loader' = "query_news"
    /\ UNCHANGED <<cache, db_news, clock, ticks, pipeVars, schedVars>>

(* cache_manager.load_from_db(db) from the answer of the store on *)
BootLoadFromDb ==
    /\ BootAt("load_from_db")
    /\ loader = "query_news"
    /\ \E rows \in PublishedNewestFirst(db_news) : cache' = load_from_db(cache, rows)
    /\ lock' = "free" /\ loader' = "idle"
    /\ ctx' = [ctx EXCEPT ![Web] = BootNext(@)]
    /\ UNCHANGED <<db_news, db_jobs, api_logs, next_id, triggers, runs, clock, ticks,
                   schedVars>>

(* cache_manager.load_symbols(db): the symbol lists are no part of the     *)
(* news cache                                                              *)
BootLoadSymbols ==
    /\ BootAt("load_symbols")
    /\ WithLock
    /\ ctx' = [ctx EXCEPT ![Web] = BootNext(@)]
    /\ UNCHANGED <<cache, db_news, db_jobs, api_logs, next_id, triggers, runs, clock,
                   ticks, schedVars, lockVars>>

(* scheduler_service.init_jobs_from_db(db): the defaults are seeded and    *)
(* committed, then the enabled rows get their triggers.  made holds the    *)
(* names of the rows the seeding created.                                  *)
BootInitJobs ==
    /\ BootAt("init_jobs_from_db")
    /\ LET jobs == _ensure_default_jobs(db_jobs)
           added == AddJobsInTurn(JobNames, jobs, clock, trig)
       IN  /\ db_jobs' = jobs
           /\ trig' = added.trig
           /\ triggers' = {j \in JobSet : added.trig[j] # NoTrigger}
           /\ ctx' = [ctx EXCEPT ![Web] =
                        IF added.err = NoErr
                        THEN BootNext([@ EXCEPT !.made = JobSet \ DOMAIN db_jobs])
                        ELSE [Ended(@, "raised") EXCEPT
                                 !.queue = <<>>, !.made = JobSet \ DOMAIN db_jobs]]
    /\ UNCHANGED <<cache, db_news, api_logs, next_id, runs, clock, ticks, paused,
                   last_fire, running, lockVars>>

(* scheduler_service.start(): the scheduler runs; the jobs added before    *)
(* get their first run time now.                                           *)
BootStart ==
    /\ BootAt("start")
    /\ running' = TRUE
    /\ trig' = [j \in JobSet |->
                  IF j \in triggers THEN BuildTrigger(db_jobs[j], clock).trigger
                  ELSE trig[j]]
    /\ ctx' = [ctx EXCEPT ![Web] = BootNext(@)]
    /\ UNCHANGED <<cache, db_news, db_jobs, api_logs, next_id, triggers, runs, clock,
                   ticks, paused, last_fire, lockVars>>

NextBoot ==
    \/ BootLoadFromDbQuery
    \/ BootLoadFromDb
    \/ BootLoadSymbols
    \/ BootInitJobs
    \/ BootStart
    \/ \E w \in Workers, j \in JobSet : RunJob(w, j)
    \/ \E j \in JobSet : SkipRun(j)
    \/ \E w \in Workers : Fetch(w)
    \/ \E w \in Workers : MarketFlush(w)
    \/ \E w \in Workers : MarketCommit(w)
    \/ \E w \in Workers : MarketCache(w)
    \/ \E w \in Workers : NewsCheck(w)
    \/ \E w \in Workers : NewsFlush(w)
    \/ \E w \in Workers : NewsCache(w)
    \/ \E w \in Workers : NewsCommit(w)
    \/ \E w \in Workers : RunJobLog(w)
    \/ \E w \in Workers : RunJobExcept(w)
    \/ Tick

SpecBoot == InitBoot /\ [][NextBoot]_vars

----------------------------------------------------------------------------
(* SpecAdmin: the admin's record endpoints (create, edit, publish toggle,  *)
(* delete) and the admin's manual executions (run_job_now), in any         *)
(* sequence.  All of them are handlers of the web event loop, which runs   *)
(* one at a time; each record endpoint commits to the store and then calls *)
(* the cache.                                                              *)

(* The admin starts no call that adds to a flat list of MaxCacheLen dicts, *)
(* and no more than MaxAdminRuns executions.                               *)
CacheRoom == Len(cache.all_news) < MaxCacheLen

MaxAdminRuns == 1

(* news_create, lines 292-308: the row is built from the form and          *)
(* committed; an unpublished record is left at that.                       *)
NewsCreate ==
    \E is_published \in BOOLEAN, is_featured \in BOOLEAN :
        /\ ctx[Web].pc = "idle"
        /\ next_id <= MaxId
        /\ CacheRoom
        /\ LET news == SampleRow(next_id, is_published, is_featured, clock)
           IN  /\ db_news' = db_news \cup {news}
               /\ next_id' = next_id + 1
               /\ ctx' = [ctx EXCEPT ![Web] =
                            IF is_published
                            THEN [@ EXCEPT !.pc = "create_cache", !.origin = "news_create",
                                           !.cur = news, !.exit = "none"]
                            ELSE Served(@)]
        /\ UNCHANGED <<cache, db_jobs, api_logs, triggers, runs, clock, ticks,
                       schedVars, lockVars>>

(* news_create, lines 310-311 *)
NewsCreateCache ==
    /\ ctx[Web].pc = "create_cache"
    /\ WithLock
    /\ LET r == add_news(cache, to_dict(ctx[Web].cur), FreshRef(cache))
       IN  /\ cache' = r.cache
           /\ ctx' = [ctx EXCEPT ![Web] =
                        IF r.err = NoErr THEN Served(@)
                        ELSE [Served(@) EXCEPT !.exit = "raised"]]
    /\ UNCHANGED <<db_news, db_jobs, api_logs, next_id, triggers, runs, clock, ticks,
                   schedVars, lockVars>>

(* news_edit, lines 355-371: the row takes the form's fields, here the two *)
(* flags, and is committed; an id without a row redirects.                 *)
NewsEdit(news_id) ==
    \E is_published \in BOOLEAN, is_featured \in BOOLEAN :
        /\ ctx[Web].pc = "idle"
        /\ \E news \in db_news :
              /\ news.id = news_id
              /\ LET edited == [news EXCEPT !.is_published = is_published,
                                            !.is_featured = is_featured]
                 IN  /\ db_news' = (db_news \ {news}) \cup {edited}
                     /\ ctx' = [ctx EXCEPT ![Web] =
                                  [@ EXCEPT !.pc = "edit_cache", !.origin = "news_edit",
                                            !.cur = edited, !.exit = "none"]]
        /\ UNCHANGED <<cache, db_jobs, api_logs, next_id, triggers, runs, clock, ticks,
                       schedVars, lockVars>>

(* news_edit, line 372: cache_manager.update_news(news_id, news.to_dict()) *)
NewsEditCache ==
    /\ ctx[Web].pc = "edit_cache"
    /\ WithLock
    /\ LET r == update_news(cache, ctx[Web].cur.id, to_dict(ctx[Web].cur))
       IN  /\ cache' = r.cache
           /\ ctx' = [ctx EXCEPT ![Web] =
                        IF r.err = NoErr THEN Served(@)
                        ELSE [Served(@) EXCEPT !.exit = "raised"]]
    /\ UNCHANGED <<db_news, db_jobs, api_logs, next_id, triggers, runs, clock, ticks,
                   schedVars, lockVars>>

(* news_delete, lines 405-408: the row is deleted and the delete committed *)
NewsDelete(news_id) ==
    /\ ctx[Web].pc = "idle"
    /\ \E news \in db_news :
          /\ news.id = news_id
          /\ db_news' = db_news \ {news}
          /\ ctx' = [ctx EXCEPT ![Web] =
                       [@ EXCEPT !.pc = "delete_cache", !.origin = "news_delete",
                                 !.cur = news, !.exit = "none"]]
    /\ UNCHANGED <<cache, db_jobs, api_logs, next_id, triggers, runs, clock, ticks,
                   schedVars, lockVars>>

(* news_delete, line 409: cache_manager.remove_news(news_id) *)
NewsDeleteCache ==
    /\ ctx[Web].pc = "delete_cache"
    /\ WithLock
    /\ LET r == remove_news(cache, ctx[Web].cur.id)
       IN  /\ cache' = r.cache
           /\ ctx' = [ctx EXCEPT ![Web] =
                        IF r.err = NoErr THEN Served(@)
                        ELSE [Served(@) EXCEPT !.exit = "raised"]]
    /\ UNCHANGED <<db_news, db_jobs, api_logs, next_id, triggers, runs, clock, ticks,
                   schedVars, lockVars>>

NextAdmin ==
    \/ NewsCreate
    \/ NewsCreateCache
    \/ \E news_id \in Ids : NewsEdit(news_id)
    \/ NewsEditCache
    \/ \E news_id \in Ids : CacheRoom /\ NewsToggle(news_id)
    \/ NewsToggleCache
    \/ \E news_id \in Ids : NewsDelete(news_id)
    \/ NewsDeleteCache
    \/ \E j \in JobSet : runs < MaxAdminRuns /\ RunJobNow(j)
    \/ Fetch(Web)
    \/ MarketFlush(Web)
    \/ MarketCommit(Web)
    \/ MarketCache(Web)
    \/ NewsCheck(Web)
    \/ NewsFlush(Web)
    \/ NewsCache(Web)
    \/ NewsCommit(Web)

SpecAdmin == Init /\ [][NextAdmin]_vars

----------------------------------------------------------------------------
(* Properties *)

StoredIds == {r.id : r \in db_news}

CachedIds == {e.d.id : e \in AllEntries(cache)}

(* C1: every record a reader can find in the cache, in the flat list, the  *)
(* featured list or a bucket, is already committed to the store.           *)
C1_CachedIsCommitted == CachedIds \subseteq StoredIds

(* C2: once an execution in which a flush or commit failed has ended,      *)
(* neither the store nor the cache holds a record that execution created.  *)
C2_FailedWriteLeavesNothing ==
    \A t \in Threads :
        (ctx[t].pc = "idle" /\ ctx[t].store_failed) =>
            \A id \in ctx[t].made : id \notin StoredIds /\ id \notin CachedIds

(* The provider answered thread t's call with an error in this step *)
ProviderFailed(t) ==
    /\ ctx[t].pc = "fetch"
    /\ ~ctx[t].broken
    /\ ctx'[t] # ctx[t]
    /\ ctx'[t].fetched \in {NotConfigured, ProviderError}

(* process_job gave its caller success = false with no records in this step *)
ReturnedFailure(t) ==
    CASE ctx[t].origin = "run_job" ->
            ctx'[t].pc = "log" /\ ctx'[t].result = Failure(ctx'[t].fetched)
      [] ctx[t].origin = "run_job_now" ->
            /\ ctx'[t].pc = "idle"
            /\ ctx'[t].exit = "returned"
            /\ ctx'[t].result = Failure(ctx'[t].fetched)
      [] OTHER ->
            ctx'[t].tally = [ctx[t].tally EXCEPT !.failed = @ + 1]

C4_OneExecutionPerJob ==
    \A t1, t2 \in Threads :
        (t1 # t2 /\ InFlight(t1) /\ InFlight(t2)) => ctx[t1].job # ctx[t2].job

(* C5: the store never holds two records with the same title *)
C5_TitlesUnique ==
    \A r1, r2 \in db_news : r1.title = r2.title => r1.id = r2.id

(* C6: in a news job, an article whose title, as it is stored, is the      *)
(* title of a record the store already holds is not persisted again.       *)
C6_StoredTitleIsSkipped ==
    [][\A t \in Threads :
          (/\ ctx[t].pc = "n_check"
           /\ TitleExists(Visible(t), StoredTitle(Head(ctx[t].articles))))
          => ctx'[t].pc # "n_flush"]_vars

(* C7: a scheduled execution leaves the job's trigger registered and       *)
(* _run_job never ends by an exception.                                    *)
C7_RunJobNeverRaises ==
    /\ triggers = JobSet
    /\ \A w \in Workers : ctx[w].exit # "raised"

(* C8: in every cache state remove_news(id) completes without error, the   *)
(* id is then absent, and a second remove_news(id) changes nothing and     *)
(* completes without error.                                                *)
C8_RemoveIsTotalAndIdempotent ==
    \A id \in Ids :
        LET r == remove_news(cache, id)
        IN  /\ r.err = NoErr
            /\ get_news_by_id(r.cache, id) = NoDict
            /\ remove_news(r.cache, id) = [cache |-> r.cache, err |-> NoErr]

(* C9: in every cache state add_news(record) followed by                   *)
(* get_news_by_id(record.id) gives a record equal to the one added.        *)
C9_AddThenGet ==
    \A nd \in SampleDicts :
        LET r == add_news(cache, nd, FreshRef(cache))
        IN  r.err = NoErr /\ get_news_by_id(r.cache, nd.id) = nd

(* C10: whatever the cache holds, load_from_db over a store leaves one     *)
(* flat-list entry per published row and none for an unpublished one.      *)
C10_LoadIsFullRebuild ==
    \A table \in SampleStores : \A rows \in PublishedNewestFirst(table) :
        LET c == load_from_db(cache, rows)
        IN  /\ Len(c.all_news) = Cardinality({r \in table : r.is_published})
            /\ {e.d.id : e \in SeqRange(c.all_news)} =
                   {r.id : r \in {x \in table : x.is_published}}

(* the cache is what load_from_db leaves over a store with published and   *)
(* unpublished rows                                                        *)
C10_Witness ==
    \E table \in SampleStores : \E rows \in PublishedNewestFirst(table) :
        /\ rows # <<>>
        /\ \E r \in table : ~r.is_published
        /\ cache = load_from_db(cache, rows)

(* C11: while load_from_db or load_symbols waits for its store query, the  *)
(* cache lock is free, so that no reader is kept waiting by a store read.  *)
C11_LockFreeDuringStoreQuery == loader # "idle" => lock = "free"

(* C12: toggle_job and update_job_timing replace a trigger atomically: no  *)
(* step takes the trigger away from a job that is enabled before and after *)
(* the step, whether or not the new trigger can be built.                  *)
C12_TriggerReplacedAtomically ==
    [][\A j \in JobSet :
          (j \in triggers /\ db_jobs[j].is_enabled /\ db_jobs'[j].is_enabled)
              => j \in triggers']_vars

(* C13: whenever no toggle_job or update_job_timing call is under way, a   *)
(* job has a registered trigger exactly if its stored enabled flag is true *)
(* and the parameter of its trigger kind is set; the registry holds one    *)
(* trigger per job id at most.                                             *)
C13_ScheduledIffEnabledAndConfigured ==
    ctx[Web].pc = "idle" =>
        \A j \in JobSet :
            LET job == db_jobs[j]
                configured == IF job.schedule_type = "cron" THEN job.cron_time # <<>>
                              ELSE job.interval_minutes # 0
            IN  /\ j \in triggers <=> (job.is_enabled /\ configured)
                /\ j \in triggers <=> trig[j] # NoTrigger

(* The step is the scheduler starting an execution of job j *)
Fires(j) == runs' = runs + 1 /\ trig'[j] # trig[j]

(* C14: while the scheduler is paused no trigger starts an execution;      *)
(* pause_all and resume_all change neither an enabled flag nor a trigger;  *)
(* once the scheduler has resumed, a job whose run time has come is fired: *)
(* its next run time moves on only by a firing.                            *)
C14_PauseSuspendsAndResumeFires ==
    [][/\ paused => \A j \in JobSet : ~Fires(j)
       /\ paused' # paused => UNCHANGED <<db_jobs, triggers, trig>>
       /\ \A j \in JobSet :
             (~paused /\ Due(j) /\ ctx'[Web] = ctx[Web] /\ trig'[j] # trig[j])
                 => Fires(j)]_vars

(* C15: run_job_now(j) can start whenever the web thread is free, whether  *)
(* or not j is due or has a trigger, and no step of the call changes a     *)
(* registered trigger or a next run time.                                  *)
C15_RunJobNowLeavesSchedule ==
    /\ [](\A j \in JobSet :
             (ctx[Web].pc = "idle" /\ runs < MaxRuns) => ENABLED RunJobNow(j))
    /\ [][(ctx'[Web] # ctx[Web]
             /\ "run_job_now" \in {ctx[Web].origin, ctx'[Web].origin})
              => UNCHANGED <<triggers, trig, last_fire, paused>>]_vars

(* run_job_now has run the pipeline of a scheduled job that is not due *)
C15_Witness ==
    /\ ctx[Web].origin = "run_job_now"
    /\ ctx[Web].pc \notin {"idle", "fetch"}
    /\ ctx[Web].job \in triggers
    /\ trig[ctx[Web].job].next_fire > clock

C17_IntervalDueFromLastRun ==
    \A j \in JobSet :
        (j \in triggers /\ trig[j].kind = "interval" /\ db_jobs[j].is_enabled) =>
            IF db_jobs[j].last_run = NoTime
            THEN trig[j].next_fire <= clock
            ELSE trig[j].next_fire = db_jobs[j].last_run + trig[j].param

(* C18: a next run time computed for a cron trigger is the next HH:MM,     *)
(* later than now, and firings are 24 hours apart: the next run time of a  *)
(* trigger moves on only by a firing, and then by 24 hours.                *)
C18_CronFiresEvery24Hours ==
    [][\A j \in JobSet :
          (trig'[j].kind = "cron" /\ trig'[j] # trig[j]) =>
              /\ trig'[j].next_fire > clock'
              /\ trig'[j].next_fire - clock' <= MinutesPerDay
              /\ trig'[j].next_fire % MinutesPerDay = trig'[j].param
              /\ (trig[j].kind = "cron" /\ trig[j].param = trig'[j].param) =>
                    /\ Fires(j)
                    /\ trig'[j].next_fire = trig[j].next_fire + MinutesPerDay]_vars

(* The rows with outcome failed among those an execution has logged *)
FailedRows(rows) == {i \in 1..Len(rows) : rows[i].status = "failed"}

(* C19: an execution that has ended in failure, whoever started it, has    *)
(* logged exactly one row with outcome failed and has not raised.          *)
C19_OneFailedRowPerFailure ==
    \A t \in Threads :
        (ctx[t].pc = "idle" /\ ctx[t].result.error # "none") =>
            /\ Cardinality(FailedRows(ctx[t].logged)) = 1
            /\ ctx[t].exit = "returned"

(* The step gives the caller success with a record count of one *)
ReturnedOne(t) ==
    CASE ctx[t].origin = "run_job" ->
            ctx'[t].pc = "log" /\ ctx'[t].result = Success(1)
      [] ctx[t].origin = "run_job_now" ->
            /\ ctx'[t].pc = "idle"
            /\ ctx'[t].exit = "returned"
            /\ ctx'[t].result = Success(1)
      [] OTHER ->
            ctx'[t].tally = [ctx[t].tally EXCEPT !.success = @ + 1, !.total_news = @ + 1]

(* The success rows with a record count of one among the rows logged *)
SuccessRowsOfOne(rows) ==
    {i \in 1..Len(rows) : rows[i].status = "success" /\ rows[i].news_count = 1}

OwnRows(t) == {r \in db_news : r.id \in ctx[t].made}

(* The flat-list entries of the rows an execution has created *)
OwnCached(t) == {i \in 1..Len(cache.all_news) : cache.all_news[i].d.id \in ctx[t].made}

(* The thread's last execution was of a news-style job and has ended: a    *)
(* scheduled one is back in _run_job, a manual one is back at the endpoint *)
EndedNews(t) ==
    \/ ctx[t].pc \in {"log", "except"} /\ JobCategory(ctx[t].job) # "market"
    \/ /\ ctx[t].pc = "idle"
       /\ ctx[t].exit # "none"
       /\ ctx[t].tally = NoTally
       /\ ctx[t].logged # <<>>
       /\ JobCategory(ctx[t].logged[1].job_name) # "market"

(* The titles the execution is to store: of the articles long enough whose *)
(* title no row of another origin has                                      *)
ExpectedTitles(t) ==
    {StoredTitle(ctx[t].answer[i]) :
        i \in {k \in 1..Len(ctx[t].answer) :
                  /\ ~TitleTooShort(ctx[t].answer[k])
                  /\ ~TitleExists(db_news \ OwnRows(t), ctx[t].answer[k])}}

(* C21: when a news-style execution has ended, the count it returned is   *)
(* the number of its rows in the store and the number of its entries in    *)
(* the flat list; if no flush or commit of it failed, the store holds one  *)
(* row of it for each title it was to store and no other row of it.        *)
C21_OneRecordPerEligibleArticle ==
    \A t \in Threads :
        EndedNews(t) =>
            /\ ctx[t].result.news_count = Cardinality(OwnRows(t))
            /\ Cardinality(OwnCached(t)) = Cardinality(OwnRows(t))
            /\ ~ctx[t].store_failed =>
                  /\ {r.title : r \in OwnRows(t)} = ExpectedTitles(t)
                  /\ Cardinality(OwnRows(t)) = Cardinality(ExpectedTitles(t))

(* The success rows fetch_summary / fetch_news wrote among the rows logged *)
SuccessCalls(rows) ==
    {i \in 1..Len(rows) : rows[i].event_type = "api_call" /\ rows[i].status = "success"}

(* C22: when an execution has returned success, the record count of the    *)
(* success row it logged for the provider call is the number of rows it    *)
(* has stored.                                                             *)
C22_LoggedCountIsPersistedCount ==
    \A t \in Threads :
        (ctx[t].pc \in {"log", "idle"} /\ ctx[t].result.success) =>
            \A i \in SuccessCalls(ctx[t].logged) :
                ctx[t].logged[i].news_count = Cardinality(OwnRows(t))

(* C23: an execution that has logged a success row for its provider call   *)
(* has had no failed flush or commit, and every row it has created is in   *)
(* the store and in the cache; a market-style one has created its row.     *)
C23_SuccessLoggedAfterPersistence ==
    \A t \in Threads :
        \A i \in SuccessCalls(ctx[t].logged) :
            /\ ~ctx[t].store_failed
            /\ ctx[t].made \subseteq (StoredIds \cap CachedIds)
            /\ JobCategory(ctx[t].logged[i].job_name) = "market" => ctx[t].made # {}

(* The jobs run_all_jobs_now's query gives *)
EnabledJobs == SelectSeq(JobNames, LAMBDA j : db_jobs[j].is_enabled)

(* C29: every job run_all_jobs_now comes to is executed on a session that  *)
(* can be used, whatever became of the jobs before it, and the success and *)
(* failed counts returned add up to the number of enabled jobs.            *)
C29_RunAllAttemptsEveryJob ==
    /\ (ctx[Web].origin = "run_all" /\ ctx[Web].pc = "fetch") => ~ctx[Web].broken
    /\ (ctx[Web].pc = "idle" /\ ctx[Web].tally # NoTally) =>
          ctx[Web].tally.success + ctx[Web].tally.failed = Len(EnabledJobs)

(* C30: every stored row has a title of at most 500 characters *)
C30_StoredTitleAtMost500 == \A r \in db_news : r.title.len <= MaxTitleLen

(* The value set_stock_news keeps for the symbol, if the cache has one *)
HasStockList(c, symbol) ==
    DictHas(c.news["stock"], symbol) /\ DictGet(c.news["stock"], symbol).kind = "ttl"

(* C24 as stated: while the cache holds the list of a                      *)
(* set_stock_news(symbol, list), whatever step comes next other than a new *)
(* set_stock_news for the symbol, get_stock_news(symbol, limit) after the  *)
(* step gives the list cut to limit if the 30 minutes have not passed, and *)
(* the flat-list dicts of the symbol if they have.                         *)
C24_StockListServedWithinTtl ==
    [][\A symbol \in SampleSymbols, limit \in SampleLimits :
          LET cached == DictGet(cache.news["stock"], symbol)
              reset == /\ HasStockList(cache', symbol)
                       /\ DictGet(cache'.news["stock"], symbol) # cached
          IN  (HasStockList(cache, symbol) /\ ~reset) =>
                 get_stock_news(cache', symbol, limit, clock') =
                    IF clock' < cached.expires_at
                    THEN [news |-> [i \in 1..Min(limit, Len(cached.news)) |->
                                       cached.news[i].d],
                          err |-> NoErr]
                    ELSE [news |-> ScanStock(cache', symbol, limit), err |-> NoErr]]_vars

(* C24, amended: the same for every step that is not the rebuild of        *)
(* load_from_db, which drops the symbol lists at once: no other call       *)
(* changes what get_stock_news gives before the 30 minutes have passed,    *)
(* and from then on it gives the flat-list dicts of the symbol, cut to     *)
(* limit.                                                                  *)
C24_StockListServedUnlessRebuilt ==
    [][\A symbol \in SampleSymbols, limit \in SampleLimits :
          LET cached == DictGet(cache.news["stock"], symbol)
              reset == /\ HasStockList(cache', symbol)
                       /\ DictGet(cache'.news["stock"], symbol) # cached
          IN  (HasStockList(cache, symbol) /\ ~reset /\ loader # "query_news") =>
                 get_stock_news(cache', symbol, limit, clock') =
                    IF clock' < cached.expires_at
                    THEN [news |-> [i \in 1..Min(limit, Len(cached.news)) |->
                                       cached.news[i].d],
                          err |-> NoErr]
                    ELSE [news |-> ScanStock(cache', symbol, limit), err |-> NoErr]]_vars

(* the 30 minutes of a symbol list have passed, and the flat list holds a  *)
(* dict of the symbol that get_stock_news now gives                        *)
C24_Witness ==
    /\ HasStockList(cache, "SYM")
    /\ clock >= DictGet(cache.news["stock"], "SYM").expires_at
    /\ ScanStock(cache, "SYM", 20) # <<>>
    /\ get_stock_news(cache, "SYM", 20, clock).news = ScanStock(cache, "SYM", 20)

(* The list is ordered by fetch time, newest first *)
NewestFirst(list) ==
    \A i, k \in 1..Len(list) : i < k => list[i].d.fetched_at >= list[k].d.fetched_at

(* C25: the flat list and every category/subcategory list of the cache are *)
(* ordered by fetch time, newest first, in every state the pipeline, the   *)
(* publish toggle and the detail page's fallback can bring about.          *)
C25_CacheNewestFirst ==
    /\ NewestFirst(cache.all_news)
    /\ \A cat \in CategorySet :
          \A i \in 1..Len(cache.news[cat]) :
              cache.news[cat][i].v.kind = "list" => NewestFirst(cache.news[cat][i].v.items)

(* How often the list holds a dict of that id *)
CountIn(list, id) == Cardinality({i \in 1..Len(list) : list[i].d.id = id})

(* The category/subcategory list a record belongs in *)
BucketOf(c, r) ==
    IF r.category \in CategorySet /\ DictHas(c.news[r.category], r.subcategory)
    THEN BucketEntries(DictGet(c.news[r.category], r.subcategory))
    ELSE <<>>

(* C26: once an execution has returned success, each published record it   *)
(* stored is exactly once in the flat list and exactly once in the list of *)
(* its category and subcategory, whatever other executions and serving     *)
(* requests ran beside it; stated for the states in which no serving       *)
(* request is under way.                                                   *)
C26_StoredRecordCachedOnce ==
    ctx[Web].pc \notin {"toggle_cache", "detail_query", "detail_add"} =>
        \A t \in Threads :
            (ctx[t].pc \in {"log", "idle"} /\ ctx[t].result.success) =>
                \A r \in OwnRows(t) :
                    r.is_published =>
                        /\ CountIn(cache.all_news, r.id) = 1
                        /\ CountIn(BucketOf(cache, r), r.id) = 1

(* The start-up has not yet come back from load_from_db *)
LoadPending == ctx[Web].pc = "boot" /\ "load_from_db" \in SeqRange(ctx[Web].queue)

(* C27: until the start-up's load_from_db has returned the scheduler is    *)
(* not started, no execution has been started and no pool thread is at     *)
(* work, so nothing but the rebuild touches the cache.                     *)
C27_CacheLoadedBeforeSchedulerStarts ==
    LoadPending =>
        /\ ~running
        /\ runs = 0
        /\ \A w \in Workers : ctx[w].pc = "idle"
        /\ \A e \in AllEntries(cache) : e.d.id <= MaxId

(* the cache holds a record loaded at start-up and, ahead of it, one that  *)
(* a scheduled execution has inserted after the scheduler was started      *)
C27_Witness ==
    /\ running
    /\ ctx[Web].pc = "idle"
    /\ Len(cache.all_news) >= 2
    /\ cache.all_news[1].d.id > MaxId
    /\ cache.all_news[Len(cache.all_news)].d.id <= MaxId
    /\ \E w \in Workers : cache.all_news[1].d.id \in ctx[w].made

(* C28: the seeding of init_jobs_from_db leaves every row it finds as it   *)
(* is, adds the default row for every default name without a row and for   *)
(* no other, and seeding its result again changes nothing.                 *)
C28_SeedingKeepsExistingJobs ==
    [][BootAt("init_jobs_from_db") /\ db_jobs' # db_jobs =>
          /\ \A j \in DOMAIN db_jobs : db_jobs'[j] = db_jobs[j]
          /\ DOMAIN db_jobs' = DOMAIN db_jobs \cup JobSet
          /\ \A j \in JobSet \ DOMAIN db_jobs : db_jobs'[j] = DefaultJob(j)
          /\ _ensure_default_jobs(db_jobs') = db_jobs'
          /\ _ensure_default_jobs(_ensure_default_jobs(db_jobs)) =
                _ensure_default_jobs(db_jobs)]_vars

(* the seeding has created the row of one job and has left the other job's *)
(* row disabled as it found it                                             *)
C28_Witness ==
    /\ "init_jobs_from_db" \notin SeqRange(ctx[Web].queue)
    /\ ctx[Web].made = {"sector_auto"}
    /\ DOMAIN db_jobs = JobSet
    /\ ~db_jobs["market_pre_market"].is_enabled
    /\ db_jobs["sector_auto"] = DefaultJob("sector_auto")

(* The list after is the list before with updates merged into every dict   *)
(* of that id: same length, same ids in the same places, the other dicts   *)
(* as they were.                                                           *)
MergedInList(before, after, id, updates) ==
    /\ Len(after) = Len(before)
    /\ \A i \in 1..Len(before) :
          after[i].d = IF before[i].d.id = id THEN Merge(before[i].d, updates)
                       ELSE before[i].d

(* The same for the flat list, the featured list and every bucket, with    *)
(* the keys of every category as they were.                                *)
MergedInCache(before, after, id, updates) ==
    /\ MergedInList(before.all_news, after.all_news, id, updates)
    /\ MergedInList(before.featured, after.featured, id, updates)
    /\ \A cat \in CategorySet :
          /\ Len(after.news[cat]) = Len(before.news[cat])
          /\ \A i \in 1..Len(before.news[cat]) :
                /\ after.news[cat][i].k = before.news[cat][i].k
                /\ after.news[cat][i].v.kind = before.news[cat][i].v.kind
                /\ MergedInList(BucketEntries(before.news[cat][i].v),
                                BucketEntries(after.news[cat][i].v), id, updates)

(* C31: in every cache state update_news(id, fields) completes without     *)
(* error and merges the fields into every cached dict of that id, in the   *)
(* flat list, the featured list and the buckets; every other dict, the     *)
(* membership and the order of every index stay as they were.              *)
C31_UpdateMergesEveryCopy ==
    \A id \in Ids, updates \in SampleUpdates :
        LET r == update_news(cache, id, updates)
        IN  /\ r.err = NoErr
            /\ MergedInCache(cache, r.cache, id, updates)

(* process_job of thread t ends in this step with a failure: a result     *)
(* with success = false or an exception.                                   *)
ExecutionFails(t) ==
    /\ InFlight(t)
    /\ CASE ctx[t].origin = "run_job" ->
               \/ ctx'[t].pc = "except"
               \/ ctx'[t].pc = "log" /\ ~ctx'[t].result.success
         [] ctx[t].origin = "run_job_now" ->
               ctx'[t].pc = "idle" /\ ~ctx'[t].result.success
         [] OTHER -> ctx'[t].tally.failed = ctx[t].tally.failed + 1

(* C40: no step lowers a job's last_run: an execution that commits leaves  *)
(* it at least where it was, and a step in which an execution fails leaves *)
(* every last_run as it was.                                               *)
C40_LastRunNeverDecreases ==
    [][/\ \A j \in JobSet : db_jobs'[j].last_run >= db_jobs[j].last_run
       /\ \A t \in Threads : ExecutionFails(t) => db_jobs' = db_jobs]_vars

(* C39: when a trigger fires for a job whose row is disabled at that       *)
(* moment, as between the commit of toggle_job and its trigger removal,    *)
(* _run_job returns at once: the pool thread is idle again without a       *)
(* provider call, and the stored records, the cache, the job rows and the  *)
(* call log are as before.                                                 *)
C39_DisabledJobFiresNothing ==
    [][\A j \in JobSet :
          (Fires(j) /\ ~db_jobs[j].is_enabled) =>
              /\ \A w \in Workers :
                    /\ ctx'[w].pc = ctx[w].pc
                    /\ ctx'[w] # ctx[w] => ctx'[w] = Idle(Fresh, "returned", NoResult, NoTally)
              /\ UNCHANGED <<cache, db_news, db_jobs, api_logs, next_id>>]_vars

(* toggle_job has committed the disabling of a job and not yet removed its *)
(* trigger; the trigger has fired at this very time and its _run_job has   *)
(* come back, with nothing logged                                          *)
C39_Witness ==
    \E j \in JobSet :
        /\ ctx[Web].pc = "remove_job" /\ ctx[Web].job = j
        /\ ~db_jobs[j].is_enabled
        /\ j \in triggers
        /\ last_fire[j] = clock
        /\ runs = 1
        /\ api_logs = <<>>
        /\ \E w \in Workers : ctx[w].pc = "idle" /\ ctx[w].exit = "returned"

(* C35: every value the cache keeps under a subcategory key of a category  *)
(* is an ordered list of record dicts, the kind of value that              *)
(* get_news_by_category, add_news, update_news and remove_news work on.    *)
C35_BucketsAreRecordLists ==
    \A cat \in CategorySet :
        \A i \in 1..Len(cache.news[cat]) : cache.news[cat][i].v.kind = "list"

(* C37: the featured list holds exactly the flat-list dicts whose          *)
(* is_featured is true, and every dict of a category/subcategory list is   *)
(* in the flat list as well.                                               *)
C37_FeaturedAndBucketsFollowFlatList ==
    /\ SeqRange(cache.featured) =
           {e \in SeqRange(cache.all_news) : e.d.is_featured = TRUE}
    /\ \A cat \in CategorySet :
          \A i \in 1..Len(cache.news[cat]) :
              cache.news[cat][i].v.kind = "list" =>
                  SeqRange(cache.news[cat][i].v.items) \subseteq SeqRange(cache.all_news)

(* The queries of the search page: a word of the stored titles, a word of  *)
(* the provider's titles                                                   *)
SampleQueries == {"row", "a"}

(* limit = 50 of the category, subcategory and search pages *)
PageLimit == 50

(* The ids of the dicts a list of dicts holds *)
IdsOf(news) == {news[i].id : i \in 1..Len(news)}

(* The ids of the records the serving reads of the cache give at time now  *)
ServedIds(c, now) ==
    {id \in Ids : get_news_by_id(c, id) # NoDict}
    \cup IdsOf(get_latest_news(c, PageLimit))
    \cup IdsOf(get_featured_news(c, PageLimit))
    \cup UNION {IdsOf(get_news_by_category_all(c, cat, PageLimit).news) : cat \in CategorySet}
    \cup UNION {UNION {IdsOf(get_news_by_category(c, cat, c.news[cat][i].k, PageLimit).news) :
                          i \in 1..Len(c.news[cat])} : cat \in CategorySet}
    \cup UNION {IdsOf(search_news(c, q, PageLimit)) : q \in SampleQueries}
    \cup UNION {IdsOf(get_stock_news(c, symbol, PageLimit, now).news) :
                   symbol \in SampleSymbols}

(* C38: in every cache state, once remove_news(id) has ended, none of the  *)
(* serving reads (by id, latest, featured, by category, search, by symbol  *)
(* with its unexpired list) gives a record of that id.                     *)
C38_RemovedIsNotServed ==
    \A id \in Ids : id \notin ServedIds(remove_news(cache, id).cache, clock)

(* No id is twice in the list *)
IdsDistinct(list) ==
    \A i, k \in 1..Len(list) : list[i].d.id = list[k].d.id => i = k

(* C36: no record id occurs more than once in the flat list, in the        *)
(* featured list or in any category/subcategory list of the cache.         *)
C36_NoIdTwiceInAnIndex ==
    /\ IdsDistinct(cache.all_news)
    /\ IdsDistinct(cache.featured)
    /\ \A cat \in CategorySet :
          \A i \in 1..Len(cache.news[cat]) :
              cache.news[cat][i].v.kind = "list" => IdsDistinct(cache.news[cat][i].v.items)

(* No admin call and no execution is under way *)
AllIdle == \A t \in Threads : ctx[t].pc = "idle"

(* C32: whenever the admin calls (create, edit, publish toggle, delete)    *)
(* and the executions started so far have all ended, every entry of the    *)
(* cache's flat list is a record the store holds with is_published true.   *)
C32_FlatListIsPublishedStore ==
    AllIdle =>
        \A e \in SeqRange(cache.all_news) :
            \E r \in db_news : r.id = e.d.id /\ r.is_published

(* C33: the record a market job flushes has the generated title whenever   *)
(* the provider's title is empty or shorter than the minimum length, and   *)
(* the generated title is made of the job's subcategory and the date of    *)
(* the job's clock reading, nothing else.                                  *)
C33_ShortMarketTitleIsGenerated ==
    [][\A t \in Threads :
          (ctx[t].pc = "m_flush" /\ ctx'[t].pc = "m_commit"
              /\ TitleTooShort(ctx[t].title)) =>
              /\ ctx'[t].cur.title =
                     _generate_title(JobSubcategory(ctx[t].job), ctx[t].now)
              /\ \A now \in {ctx[t].now, DateOf(ctx[t].now) * MinutesPerDay} :
                    _generate_title(JobSubcategory(ctx[t].job), now) = ctx'[t].cur.title]_vars

(* C34: whenever a call waits for the provider and the response is text    *)
(* that does not parse, fetch_summary and fetch_news give no error and     *)
(* exactly one item, which holds the raw text and has sentiment score 0:   *)
(* the summary for fetch_summary, one article for fetch_news.              *)
C34_UnstructuredResponseIsOneRawItem ==
    \A t \in Threads :
        ctx[t].pc = "fetch" =>
            \A response \in SampleResponses(ctx[t].job) :
                ~response.json =>
                    /\ fetch_summary(response).error = None
                    /\ fetch_summary(response).content = "raw"
                    /\ fetch_summary(response).sentiment_score = 0
                    /\ fetch_news(response).error = None
                    /\ Len(fetch_news(response).articles) = 1

====
